---- MODULE Spec2Model ----
(* The gossip SyncManager (package discovery): the registry of active and   *)
(* inactive GossipSyncers, the syncerHandler event loop with its bootstrap  *)
(* state, the public InitSyncState / PruneSyncState / Start / Stop calls,   *)
(* and the GossipSyncers seen through the operations the manager invokes.   *)
EXTENDS Integers, Sequences, FiniteSets, TLC

\* ------------------------------------------------------------------ bounds
NumPeers == 2
MaxActive == 1
\* GossipSyncers created in one run: when every caller is untracked (Spec),
\* and when callers are tracked as well (ApiSpec).
MaxSyncers == 3
MaxApiSyncers == 2
\* GossipSyncers created in one run of the specification with fairness.
MaxLiveSyncers == 1
\* Calls of Start, and of Stop, in one run.
MaxLifecycleCalls == 2
\* The promotion scenario: its peers and its cfg.NumActiveSyncers.
ScenarioPeers == 4
ScenarioActive == 3
NumCallers == 1
\* the registry specification: peers (and syncers created), active limit
RegistryPeers == 3
RegistryActive == 2
\* the manager with syncersMu modelled: peers (and syncers created), active limit
MutexPeers == 2
MutexActive == 2

Peers == 1..NumPeers
Callers == 1..NumCallers
Nil == 0

\* The callers whose position is tracked, and Other: any further caller, which
\* is at the first select of its call whenever the handler is ready to receive.
Other == 0
Requesters == Callers \cup {Other}

VARIABLES
    NumActiveSyncers,               \* cfg.NumActiveSyncers
    activeSyncers,                  \* map peer -> syncer
    inactiveSyncers,                \* map peer -> syncer
    syncers,                        \* every GossipSyncer created so far
    attemptInitialHistoricalSync,
    initialHistoricalSyncCompleted,
    initialHistoricalSyncer,
    initialHistoricalSyncSignal,
    loopPc,                         \* position of the syncerHandler goroutine
    cur,                            \* the syncer/request the handler is on
    startOnce,
    stopPc,
    quit,
    calls,                          \* the callers of the public API
    loops,                          \* syncerHandler goroutines launched
    quitCloses,                     \* executions of close(m.quit)
    startCalls,                     \* calls of Start so far
    stopCalls,                      \* calls of Stop so far
    initialSyncsInFlight,           \* history: bootstrap syncs asked, not ended
    firstRequestOk,                 \* history: the first syncer's own request succeeded
    event,                          \* history: the select case the handler just ran
    asked,                          \* history: what that case asked of the syncers
    syncersMu,                      \* who holds m.syncersMu
    txn,                            \* the handler's position while it holds syncersMu
    lookup                          \* history: the last GossipSyncer(peer) call

vars == <<NumActiveSyncers, activeSyncers, inactiveSyncers, syncers,
          attemptInitialHistoricalSync, initialHistoricalSyncCompleted,
          initialHistoricalSyncer, initialHistoricalSyncSignal, loopPc, cur,
          startOnce, stopPc, quit, calls, loops, quitCloses,
          startCalls, stopCalls, initialSyncsInFlight, firstRequestOk,
          event, asked, syncersMu, txn, lookup>>

\* ------------------------------------------------------------- map helpers
EmptyMap == [x \in {} |-> Nil]

Put(m, k, v) == [x \in (DOMAIN m) \cup {k} |-> IF x = k THEN v ELSE m[x]]

Del(m, k) == [x \in (DOMAIN m) \ {k} |-> m[x]]

Values(m) == {m[x] : x \in DOMAIN m}

Ids == 1..Len(syncers)

\* The registry as one value: both maps and the syncers they refer to.
\* asked: the requests made of syncers while the registry was worked on, each
\* [s, op, ok]: ProcessSyncTransition to op, or historicalSync, and its outcome.
Reg == [active |-> activeSyncers, inactive |-> inactiveSyncers, syncers |-> syncers,
        asked |-> {}]

Request(s, op, ok) == [s |-> s, op |-> op, ok |-> ok]

\* The syncers of F are asked op and return an error.
Refused(reg, F, op) ==
    [reg EXCEPT !.asked = @ \cup {Request(f, op, FALSE) : f \in F}]

Eligible(ss, set) == {s \in set : ss[s].state = "chansSynced"}

\* ------------------------------------------------------ GossipSyncer handle
\* createGossipSyncer: chansSynced state and PassiveSync type.
createGossipSyncer(peer) ==
    [peerPub |-> peer, syncType |-> "PassiveSync", state |-> "chansSynced",
     started |-> 0, stopped |-> 0, stopTasks |-> 0]

setSyncType(ss, s, t) == [ss EXCEPT ![s].syncType = t]

\* A successful ProcessSyncTransition leaves the syncer with the new type.
ProcessSyncTransition(ss, s, t) == [ss EXCEPT ![s].syncType = t]

\* A successful historicalSync leaves the syncer with a query outstanding.
historicalSync(ss, s) == [ss EXCEPT ![s].state = "syncingChans"]

\* The synced signal of s: already closed when s is in chansSynced.
ResetSyncedSignal(ss, s) == IF ss[s].state = "chansSynced" THEN "closed" ELSE "open"

SyncerStart(ss, s) == [ss EXCEPT ![s].started = @ + 1]

SyncerStop(ss, s) == [ss EXCEPT ![s].stopped = @ + 1]

\* ------------------------------------------------------------- the registry
gossipSyncersMap(reg) ==
    [p \in (DOMAIN reg.inactive) \cup (DOMAIN reg.active) |->
        IF p \in DOMAIN reg.active THEN reg.active[p] ELSE reg.inactive[p]]

gossipSyncer_activeOnly(reg, peer) ==
    IF peer \in DOMAIN reg.active THEN reg.active[peer] ELSE Nil

\* gossipSyncer: inactive first, then active; Nil when absent.
gossipSyncer(reg, peer) ==
    IF peer \in DOMAIN reg.inactive THEN reg.inactive[peer]
    ELSE IF peer \in DOMAIN reg.active THEN reg.active[peer]
    ELSE Nil

transitionActiveSyncer_dropped(reg, s) ==
    LET peer == reg.syncers[s].peerPub IN
    [active |-> Del(reg.active, peer),
     inactive |-> reg.inactive,
     syncers |-> ProcessSyncTransition(reg.syncers, s, "PassiveSync"),
     asked |-> reg.asked \cup {Request(s, "PassiveSync", TRUE)}]

transitionActiveSyncer_keepType(reg, s) ==
    LET peer == reg.syncers[s].peerPub IN
    [active |-> Del(reg.active, peer),
     inactive |-> Put(reg.inactive, peer, s),
     syncers |-> reg.syncers,
     asked |-> reg.asked \cup {Request(s, "PassiveSync", TRUE)}]

transitionActiveSyncer_keepActive(reg, s) ==
    LET peer == reg.syncers[s].peerPub IN
    [active |-> reg.active,
     inactive |-> Put(reg.inactive, peer, s),
     syncers |-> ProcessSyncTransition(reg.syncers, s, "PassiveSync"),
     asked |-> reg.asked \cup {Request(s, "PassiveSync", TRUE)}]

transitionActiveSyncer(reg, s) ==
    LET peer == reg.syncers[s].peerPub IN
    [active |-> Del(reg.active, peer),
     inactive |-> Put(reg.inactive, peer, s),
     syncers |-> ProcessSyncTransition(reg.syncers, s, "PassiveSync"),
     asked |-> reg.asked \cup {Request(s, "PassiveSync", TRUE)}]

transitionPassiveSyncer_keepInactive(reg, s) ==
    LET peer == reg.syncers[s].peerPub IN
    [active |-> Put(reg.active, peer, s),
     inactive |-> reg.inactive,
     syncers |-> ProcessSyncTransition(reg.syncers, s, "ActiveSync"),
     asked |-> reg.asked \cup {Request(s, "ActiveSync", TRUE)}]

transitionPassiveSyncer_keepType(reg, s) ==
    LET peer == reg.syncers[s].peerPub IN
    [active |-> Put(reg.active, peer, s),
     inactive |-> Del(reg.inactive, peer),
     syncers |-> reg.syncers,
     asked |-> reg.asked \cup {Request(s, "ActiveSync", TRUE)}]

transitionPassiveSyncer(reg, s) ==
    LET peer == reg.syncers[s].peerPub IN
    [active |-> Put(reg.active, peer, s),
     inactive |-> Del(reg.inactive, peer),
     syncers |-> ProcessSyncTransition(reg.syncers, s, "ActiveSync"),
     asked |-> reg.asked \cup {Request(s, "ActiveSync", TRUE)}]

chooseRandomSyncer_anyState(ss, set, refuse) ==
    LET ok == {s \in set : s \notin refuse}
    IN IF ok = {} THEN {Nil} ELSE ok

\* chooseRandomSyncer: the syncers it can return from `set` when the action
\* is refused by exactly the syncers of `refuse` (Nil when none qualifies).
chooseRandomSyncer(ss, set, refuse) ==
    LET ok == {s \in set : ss[s].state = "chansSynced" /\ s \notin refuse}
    IN IF ok = {} THEN {Nil} ELSE ok

\* One chooseRandomSyncer(inactiveSyncers, transitionPassiveSyncer) call: the
\* registries it can leave, over every way the candidates can refuse.
PromoteOnce_firstOnly(reg) ==
    LET eligible == Eligible(reg.syncers, Values(reg.inactive)) IN
    IF eligible = {} THEN {reg}
    ELSE UNION { { Refused(reg, {s}, "ActiveSync"), transitionPassiveSyncer(reg, s) } :
                 s \in eligible }

\* The candidates met before the one returned were asked and refused, in any
\* number (the map is ranged over in random order); all of them when none is
\* returned.
PromoteOnce(reg) ==
    LET eligible == Eligible(reg.syncers, Values(reg.inactive)) IN
    UNION { UNION { IF s = Nil
                    THEN {Refused(reg, eligible, "ActiveSync")}
                    ELSE { transitionPassiveSyncer(Refused(reg, F, "ActiveSync"), s) :
                           F \in SUBSET (eligible \cap refuse) } :
                    s \in chooseRandomSyncer(reg.syncers, Values(reg.inactive), refuse) } :
            refuse \in SUBSET Values(reg.inactive) }

PromoteLoop_once(n, reg) ==
    IF n <= 0 THEN {reg} ELSE PromoteOnce(reg)

RECURSIVE PromoteLoop(_, _)
PromoteLoop(n, reg) ==
    IF n <= 0 THEN {reg}
    ELSE UNION { PromoteLoop(n - 1, r) : r \in PromoteOnce(reg) }

removeGossipSyncer_keepEntry(reg, peer) ==
    LET s == gossipSyncer(reg, peer) IN
    IF s = Nil THEN {reg}
    ELSE {[reg EXCEPT !.syncers = [reg.syncers EXCEPT ![s].stopTasks = @ + 1]]}

removeGossipSyncer_noStop(reg, peer) ==
    LET s == gossipSyncer(reg, peer) IN
    IF s = Nil THEN {reg}
    ELSE IF peer \in DOMAIN reg.inactive
         THEN {[active |-> reg.active, inactive |-> Del(reg.inactive, peer),
                syncers |-> reg.syncers, asked |-> reg.asked]}
         ELSE PromoteOnce([active |-> Del(reg.active, peer),
                           inactive |-> reg.inactive, syncers |-> reg.syncers,
                           asked |-> reg.asked])

removeGossipSyncer_noReplace(reg, peer) ==
    LET s == gossipSyncer(reg, peer) IN
    IF s = Nil THEN {reg}
    ELSE {[active |-> Del(reg.active, peer), inactive |-> Del(reg.inactive, peer),
           syncers |-> [reg.syncers EXCEPT ![s].stopTasks = @ + 1],
           asked |-> reg.asked]}

\* removeGossipSyncer: the registries it can leave.
removeGossipSyncer(reg, peer) ==
    LET s == gossipSyncer(reg, peer) IN
    IF s = Nil THEN {reg}
    ELSE LET spawned == [reg.syncers EXCEPT ![s].stopTasks = @ + 1] IN
         IF peer \in DOMAIN reg.inactive
         THEN {[active |-> reg.active, inactive |-> Del(reg.inactive, peer),
                syncers |-> spawned, asked |-> reg.asked]}
         ELSE PromoteOnce([active |-> Del(reg.active, peer),
                           inactive |-> reg.inactive, syncers |-> spawned,
                           asked |-> reg.asked])

\* ----------------------------------------------------------------- Init
\* done: doneChan closed. History of the call: pruned (a deregistration of its
\* peer was processed after its acknowledgement), dup (the handler found a
\* syncer for its peer), made (the syncer created for it), afterStop (entered
\* after Stop returned), atStop (its position when quit was closed).
IdleCall ==
    [op |-> "none", peer |-> Nil, pc |-> "idle", done |-> FALSE, pruned |-> FALSE,
     dup |-> FALSE, made |-> Nil, afterStop |-> FALSE, atStop |-> "no"]

NewCall(op, peer) ==
    [IdleCall EXCEPT !.op = op, !.peer = peer, !.pc = "send",
                     !.afterStop = (stopPc = "done")]

\* The handler's position inside a case that holds syncersMu across several
\* map writes: pc (none, choose, ask, delete, insert, finish), the transitions
\* todo (syncer and sync type, the current one first), the chooseRandomSyncer
\* calls left, the candidates the current call has met, and the deregistered
\* peer with its syncer.
NoTxn ==
    [pc |-> "none", todo |-> <<>>, left |-> 0, tried |-> {}, peer |-> Nil,
     gone |-> Nil]

\* No GossipSyncer(peer) call has returned yet.
NoLookup ==
    [peer |-> Nil, found |-> FALSE, both |-> FALSE, registered |-> FALSE,
     moved |-> FALSE]

\* newSyncManager and the var block of syncerHandler.
FreshManager ==
    /\ activeSyncers = EmptyMap
    /\ inactiveSyncers = EmptyMap
    /\ syncers = <<>>
    /\ attemptInitialHistoricalSync = TRUE
    /\ initialHistoricalSyncCompleted = FALSE
    /\ initialHistoricalSyncer = Nil
    /\ initialHistoricalSyncSignal = "nil"
    /\ loopPc = "notstarted"
    /\ cur = [s |-> Nil, req |-> Nil]
    /\ startOnce = FALSE
    /\ stopPc = "idle"
    /\ quit = FALSE
    /\ calls = [c \in Callers |-> IdleCall]
    /\ loops = 0
    /\ quitCloses = 0
    /\ startCalls = 0
    /\ stopCalls = 0
    /\ initialSyncsInFlight = {}
    /\ firstRequestOk = FALSE
    /\ event = "none"
    /\ asked = {}
    /\ syncersMu = "free"
    /\ txn = NoTxn
    /\ lookup = NoLookup

Init ==
    /\ NumActiveSyncers \in 0..MaxActive
    /\ FreshManager

registryVars == <<activeSyncers, inactiveSyncers, syncers>>
bootstrapVars == <<attemptInitialHistoricalSync, initialHistoricalSyncCompleted,
                   initialHistoricalSyncer, initialHistoricalSyncSignal>>
lifecycleVars == <<startOnce, stopPc, quit, loops, quitCloses, startCalls, stopCalls>>
historyVars == <<initialSyncsInFlight, firstRequestOk>>
logVars == <<event, asked>>
lockVars == <<syncersMu, txn, lookup>>

SetReg(reg) ==
    /\ activeSyncers' = reg.active
    /\ inactiveSyncers' = reg.inactive
    /\ syncers' = reg.syncers
    /\ asked' = reg.asked

\* A step that is not one of the handler's cases asking syncers something.
ClearLog ==
    /\ event' = "none"
    /\ asked' = {}

\* ------------------------------------------------------------ public calls
Returned(c) == calls[c].pc \in {"idle", "ok", "exiting"}

PendingInits == Cardinality({c \in Callers : calls[c].op = "init" /\ calls[c].pc = "send"})

\* InitSyncState entered: the caller is at the first select. At most `cap`
\* syncers are created in one run.
EnterInitSyncState(c, peer, cap) ==
    /\ Returned(c)
    /\ Len(syncers) + PendingInits < cap
    /\ calls' = [calls EXCEPT ![c] = NewCall("init", peer)]
    /\ ClearLog
    /\ UNCHANGED lockVars
    /\ UNCHANGED <<NumActiveSyncers, registryVars, bootstrapVars, loopPc, cur,
                   lifecycleVars, historyVars>>

InitSyncState(c, peer) == EnterInitSyncState(c, peer, MaxApiSyncers)

\* PruneSyncState entered: the caller is at the first select.
PruneSyncState(c, peer) ==
    /\ Returned(c)
    /\ calls' = [calls EXCEPT ![c] = NewCall("prune", peer)]
    /\ ClearLog
    /\ UNCHANGED lockVars
    /\ UNCHANGED <<NumActiveSyncers, registryVars, bootstrapVars, loopPc, cur,
                   lifecycleVars, historyVars>>

ReturnOnQuit_secondSelectOnly(c) ==
    /\ calls[c].pc = "wait"
    /\ quit
    /\ calls' = [calls EXCEPT ![c].pc = IF calls[c].op = "init" THEN "exiting" ELSE "ok"]
    /\ ClearLog
    /\ UNCHANGED lockVars
    /\ UNCHANGED <<NumActiveSyncers, registryVars, bootstrapVars, loopPc, cur,
                   lifecycleVars, historyVars>>

ReturnOnQuit_nilError(c) ==
    /\ calls[c].pc \in {"send", "wait"}
    /\ quit
    /\ calls' = [calls EXCEPT ![c].pc = "ok"]
    /\ ClearLog
    /\ UNCHANGED lockVars
    /\ UNCHANGED <<NumActiveSyncers, registryVars, bootstrapVars, loopPc, cur,
                   lifecycleVars, historyVars>>

\* case <-m.quit of either select: ErrSyncManagerExiting for InitSyncState, a
\* plain return for PruneSyncState.
ReturnOnQuit(c) ==
    /\ calls[c].pc \in {"send", "wait"}
    /\ quit
    /\ calls' = [calls EXCEPT ![c].pc = IF calls[c].op = "init" THEN "exiting" ELSE "ok"]
    /\ ClearLog
    /\ UNCHANGED lockVars
    /\ UNCHANGED <<NumActiveSyncers, registryVars, bootstrapVars, loopPc, cur,
                   lifecycleVars, historyVars>>

ReturnOnDone_unacked(c) ==
    /\ calls[c].pc = "wait"
    /\ calls' = [calls EXCEPT ![c].pc = "ok"]
    /\ ClearLog
    /\ UNCHANGED lockVars
    /\ UNCHANGED <<NumActiveSyncers, registryVars, bootstrapVars, loopPc, cur,
                   lifecycleVars, historyVars>>

\* case <-done of the second select.
ReturnOnDone(c) ==
    /\ calls[c].pc = "wait"
    /\ calls[c].done
    /\ calls' = [calls EXCEPT ![c].pc = "ok"]
    /\ ClearLog
    /\ UNCHANGED lockVars
    /\ UNCHANGED <<NumActiveSyncers, registryVars, bootstrapVars, loopPc, cur,
                   lifecycleVars, historyVars>>

\* --------------------------------------------------------------- lifecycle
Start_noOnce ==
    /\ startCalls < MaxLifecycleCalls
    /\ startOnce' = TRUE
    /\ loopPc' = IF loopPc = "notstarted" THEN "select" ELSE loopPc
    /\ loops' = loops + 1
    /\ startCalls' = startCalls + 1
    /\ ClearLog
    /\ UNCHANGED lockVars
    /\ UNCHANGED <<NumActiveSyncers, registryVars, bootstrapVars, cur, stopPc, quit,
                   quitCloses, stopCalls, calls, historyVars>>

\* Start, first call: start.Do launches syncerHandler.
Start ==
    /\ ~startOnce
    /\ startOnce' = TRUE
    /\ loopPc' = "select"
    /\ loops' = loops + 1
    /\ startCalls' = startCalls + 1
    /\ ClearLog
    /\ UNCHANGED lockVars
    /\ UNCHANGED <<NumActiveSyncers, registryVars, bootstrapVars, cur, stopPc, quit,
                   quitCloses, stopCalls, calls, historyVars>>

\* History only: where each call in flight stood when quit was closed.
MarkAtStop(cs) ==
    [d \in Callers |->
        IF cs[d].pc \in {"send", "wait"} THEN [cs[d] EXCEPT !.atStop = cs[d].pc] ELSE cs[d]]

\* Start called again: start.Do does nothing.
StartAgain ==
    /\ startOnce
    /\ startCalls < MaxLifecycleCalls
    /\ startCalls' = startCalls + 1
    /\ ClearLog
    /\ UNCHANGED lockVars
    /\ UNCHANGED <<NumActiveSyncers, registryVars, bootstrapVars, loopPc, cur, startOnce,
                   stopPc, quit, loops, quitCloses, stopCalls, calls, historyVars>>

\* Stop called again: stop.Do does nothing (it returns once the first call has).
StopAgain ==
    /\ stopPc # "idle"
    /\ stopCalls < MaxLifecycleCalls
    /\ stopCalls' = stopCalls + 1
    /\ ClearLog
    /\ UNCHANGED lockVars
    /\ UNCHANGED <<NumActiveSyncers, registryVars, bootstrapVars, loopPc, cur, startOnce,
                   stopPc, quit, loops, quitCloses, startCalls, calls, historyVars>>

\* Stop, first half: close(m.quit).
StopCloseQuit ==
    /\ stopPc = "idle"
    /\ stopPc' = "wait"
    /\ quit' = TRUE
    /\ quitCloses' = quitCloses + 1
    /\ calls' = MarkAtStop(calls)
    /\ stopCalls' = stopCalls + 1
    /\ ClearLog
    /\ UNCHANGED lockVars
    /\ UNCHANGED <<NumActiveSyncers, registryVars, bootstrapVars, loopPc, cur,
                   startOnce, loops, startCalls, historyVars>>

RECURSIVE StopEach(_, _)
StopEach(ss, set) ==
    IF set = {} THEN ss
    ELSE LET s == CHOOSE x \in set : TRUE
         IN StopEach(SyncerStop(ss, s), set \ {s})

StopTargets_inactiveOnly == Values(inactiveSyncers)

\* The syncers the two loops of Stop range over.
StopTargets == Values(inactiveSyncers) \cup Values(activeSyncers)

\* Stop, second half: m.wg.Wait() returns and every syncer in the maps is stopped.
StopSyncers ==
    /\ stopPc = "wait"
    /\ loopPc \in {"notstarted", "exited"}
    /\ stopPc' = "done"
    /\ syncers' = StopEach(syncers, StopTargets)
    /\ ClearLog
    /\ UNCHANGED lockVars
    /\ UNCHANGED <<NumActiveSyncers, activeSyncers, inactiveSyncers, bootstrapVars,
                   loopPc, cur, startOnce, quit, loops, quitCloses, startCalls, stopCalls,
                   calls, historyVars>>

\* ------------------------------------------------- syncerHandler: new peer
NoCur == [s |-> Nil, req |-> Nil]

ShouldInitActive_never(numActive, completed) == FALSE

ShouldInitActive_ignoreLimit(numActive, completed) == completed

ShouldInitActive_ignoreBarrier(numActive, completed) == ~(numActive >= NumActiveSyncers)

ShouldInitActive_offByOne(numActive, completed) ==
    ~(numActive > NumActiveSyncers) /\ completed

\* The switch of the new-peer case: the default (active) branch is taken when
\* neither passive case matches.
ShouldInitActive(numActive, completed) ==
    ~(numActive >= NumActiveSyncers) /\ completed

\* Requester c is at the first select of a call `op` for `peer`.
Offers(c, op, peer) ==
    c \in Callers => calls[c].pc = "send" /\ calls[c].op = op /\ calls[c].peer = peer

\* The channel send of c completes: c moves on to its second select.
Handoff(cs, c) == IF c \in Callers THEN [cs EXCEPT ![c].pc = "wait"] ELSE cs

\* close(doneChan): seen by the caller only while it still waits.
CloseDone(cs, c) ==
    IF c \in Callers /\ cs[c].pc = "wait" THEN [cs EXCEPT ![c].done = TRUE] ELSE cs

\* History only: what the handler did with the request of c.
MarkDup(cs, c) == IF c \in Callers THEN [cs EXCEPT ![c].dup = TRUE] ELSE cs

MarkMade(cs, c, s) == IF c \in Callers THEN [cs EXCEPT ![c].made = s] ELSE cs

\* case newSyncer := <-m.newSyncers, up to m.syncersMu.Unlock().
\* A channel send completes only against a select parked before quit was
\* closed: once quit is closed no select parks, and close(quit) claims every
\* select parked on it.
RecvNewSyncer(c, peer, cap) ==
    /\ loopPc = "select"
    /\ ~quit
    /\ Offers(c, "init", peer)
    /\ LET s == Len(syncers) + 1
           created == Append(syncers, createGossipSyncer(peer))
       IN IF gossipSyncer(Reg, peer) # Nil
          THEN /\ calls' = CloseDone(Handoff(MarkDup(calls, c), c), c)
               /\ UNCHANGED <<registryVars, loopPc, cur>>
          ELSE /\ c = Other => Len(syncers) + PendingInits < cap
               /\ calls' = Handoff(MarkMade(calls, c, s), c)
               /\ IF ShouldInitActive(Cardinality(DOMAIN activeSyncers),
                                      initialHistoricalSyncCompleted)
                  THEN /\ syncers' = setSyncType(created, s, "ActiveSync")
                       /\ activeSyncers' = Put(activeSyncers, peer, s)
                       /\ UNCHANGED inactiveSyncers
                  ELSE /\ syncers' = setSyncType(created, s, "PassiveSync")
                       /\ inactiveSyncers' = Put(inactiveSyncers, peer, s)
                       /\ UNCHANGED activeSyncers
               /\ loopPc' = "start"
               /\ cur' = [s |-> s, req |-> c]
    /\ ClearLog
    /\ UNCHANGED lockVars
    /\ UNCHANGED <<NumActiveSyncers, bootstrapVars, lifecycleVars, historyVars>>

StartSyncer_ackOnly ==
    /\ loopPc = "start"
    /\ calls' = CloseDone(calls, cur.req)
    /\ loopPc' = "hist"
    /\ ClearLog
    /\ UNCHANGED lockVars
    /\ UNCHANGED <<NumActiveSyncers, registryVars, bootstrapVars, cur,
                   lifecycleVars, historyVars>>

\* s.Start() and close(newSyncer.doneChan).
StartSyncer ==
    /\ loopPc = "start"
    /\ syncers' = SyncerStart(syncers, cur.s)
    /\ calls' = CloseDone(calls, cur.req)
    /\ loopPc' = "hist"
    /\ ClearLog
    /\ UNCHANGED lockVars
    /\ UNCHANGED <<NumActiveSyncers, activeSyncers, inactiveSyncers, bootstrapVars, cur,
                   lifecycleVars, historyVars>>

InitialHistoricalSync_resetBarrier ==
    /\ loopPc = "hist"
    /\ loopPc' = "select"
    /\ cur' = NoCur
    /\ event' = "newSyncer"
    /\ \/ /\ ~attemptInitialHistoricalSync
          /\ asked' = {}
          /\ UNCHANGED <<registryVars, bootstrapVars, historyVars>>
       \/ /\ attemptInitialHistoricalSync
          /\ asked' = {Request(cur.s, "historicalSync", FALSE)}
          /\ UNCHANGED <<registryVars, bootstrapVars, historyVars>>
       \/ /\ attemptInitialHistoricalSync
          /\ asked' = {Request(cur.s, "historicalSync", TRUE)}
          /\ syncers' = historicalSync(syncers, cur.s)
          /\ attemptInitialHistoricalSync' = FALSE
          /\ initialHistoricalSyncer' = cur.s
          /\ initialHistoricalSyncSignal' = ResetSyncedSignal(syncers', cur.s)
          /\ initialSyncsInFlight' = initialSyncsInFlight \cup {cur.s}
          /\ firstRequestOk' = (firstRequestOk \/ cur.s = 1)
          /\ initialHistoricalSyncCompleted' = FALSE
          /\ UNCHANGED <<activeSyncers, inactiveSyncers>>
    /\ UNCHANGED lockVars
    /\ UNCHANGED <<NumActiveSyncers, lifecycleVars, calls>>

InitialHistoricalSync_alwaysAsk ==
    /\ loopPc = "hist"
    /\ loopPc' = "select"
    /\ cur' = NoCur
    /\ event' = "newSyncer"
    /\ \/ /\ asked' \in {{}, {Request(cur.s, "historicalSync", FALSE)}}
          /\ UNCHANGED <<registryVars, bootstrapVars, historyVars>>
       \/ /\ asked' = {Request(cur.s, "historicalSync", TRUE)}
          /\ syncers' = historicalSync(syncers, cur.s)
          /\ attemptInitialHistoricalSync' = FALSE
          /\ initialHistoricalSyncer' = cur.s
          /\ initialHistoricalSyncSignal' = ResetSyncedSignal(syncers', cur.s)
          /\ initialSyncsInFlight' = initialSyncsInFlight \cup {cur.s}
          /\ firstRequestOk' = (firstRequestOk \/ cur.s = 1)
          /\ UNCHANGED <<activeSyncers, inactiveSyncers, initialHistoricalSyncCompleted>>
    /\ UNCHANGED lockVars
    /\ UNCHANGED <<NumActiveSyncers, lifecycleVars, calls>>

InitialHistoricalSync_giveUp ==
    /\ loopPc = "hist"
    /\ loopPc' = "select"
    /\ cur' = NoCur
    /\ event' = "newSyncer"
    /\ \/ /\ ~attemptInitialHistoricalSync
          /\ asked' = {}
          /\ UNCHANGED <<registryVars, bootstrapVars, historyVars>>
       \/ /\ attemptInitialHistoricalSync
          /\ asked' = {Request(cur.s, "historicalSync", FALSE)}
          /\ attemptInitialHistoricalSync' = FALSE
          /\ UNCHANGED <<registryVars, initialHistoricalSyncCompleted,
                         initialHistoricalSyncer, initialHistoricalSyncSignal,
                         historyVars>>
       \/ /\ attemptInitialHistoricalSync
          /\ asked' = {Request(cur.s, "historicalSync", TRUE)}
          /\ syncers' = historicalSync(syncers, cur.s)
          /\ attemptInitialHistoricalSync' = FALSE
          /\ initialHistoricalSyncer' = cur.s
          /\ initialHistoricalSyncSignal' = ResetSyncedSignal(syncers', cur.s)
          /\ initialSyncsInFlight' = initialSyncsInFlight \cup {cur.s}
          /\ firstRequestOk' = (firstRequestOk \/ cur.s = 1)
          /\ UNCHANGED <<activeSyncers, inactiveSyncers, initialHistoricalSyncCompleted>>
    /\ UNCHANGED lockVars
    /\ UNCHANGED <<NumActiveSyncers, lifecycleVars, calls>>

\* The rest of the new-peer case: the initial historical sync attempt.
InitialHistoricalSync ==
    /\ loopPc = "hist"
    /\ loopPc' = "select"
    /\ cur' = NoCur
    /\ event' = "newSyncer"
    /\ \/ /\ ~attemptInitialHistoricalSync
          /\ asked' = {}
          /\ UNCHANGED <<registryVars, bootstrapVars, historyVars>>
       \/ /\ attemptInitialHistoricalSync
          \* s.historicalSync() returns an error
          /\ asked' = {Request(cur.s, "historicalSync", FALSE)}
          /\ UNCHANGED <<registryVars, bootstrapVars, historyVars>>
       \/ /\ attemptInitialHistoricalSync
          /\ asked' = {Request(cur.s, "historicalSync", TRUE)}
          /\ syncers' = historicalSync(syncers, cur.s)
          /\ attemptInitialHistoricalSync' = FALSE
          /\ initialHistoricalSyncer' = cur.s
          /\ initialHistoricalSyncSignal' = ResetSyncedSignal(syncers', cur.s)
          /\ initialSyncsInFlight' = initialSyncsInFlight \cup {cur.s}
          /\ firstRequestOk' = (firstRequestOk \/ cur.s = 1)
          /\ UNCHANGED <<activeSyncers, inactiveSyncers, initialHistoricalSyncCompleted>>
    /\ UNCHANGED lockVars
    /\ UNCHANGED <<NumActiveSyncers, lifecycleVars, calls>>

\* ----------------------------------------------- syncerHandler: stale peer
forceHistoricalSync_inactiveOnly(reg) ==
    LET all == Values(reg.inactive)
        eligible == Eligible(reg.syncers, all)
    IN UNION { UNION { IF s = Nil
                       THEN {<<Nil, Refused(reg, eligible, "historicalSync")>>}
                       ELSE { <<s, [Refused(reg, F, "historicalSync") EXCEPT
                                       !.syncers = historicalSync(@, s),
                                       !.asked = @ \cup {Request(s, "historicalSync", TRUE)}]>> :
                              F \in SUBSET (eligible \cap refuse) } :
                       s \in chooseRandomSyncer(reg.syncers, all, refuse) } :
               refuse \in SUBSET all }

\* forceHistoricalSync: the pairs <<chosen syncer, registry after>> it can end
\* in; the syncers met before the chosen one were asked and refused.
forceHistoricalSync(reg) ==
    LET all == Values(gossipSyncersMap(reg))
        eligible == Eligible(reg.syncers, all)
    IN UNION { UNION { IF s = Nil
                       THEN {<<Nil, Refused(reg, eligible, "historicalSync")>>}
                       ELSE { <<s, [Refused(reg, F, "historicalSync") EXCEPT
                                       !.syncers = historicalSync(@, s),
                                       !.asked = @ \cup {Request(s, "historicalSync", TRUE)}]>> :
                              F \in SUBSET (eligible \cap refuse) } :
                       s \in chooseRandomSyncer(reg.syncers, all, refuse) } :
               refuse \in SUBSET all }

\* History only: a deregistered peer's acknowledged registrations are marked.
MarkPruned(cs, peer) ==
    [d \in Callers |->
        IF cs[d].op = "init" /\ cs[d].peer = peer /\ cs[d].done
        THEN [cs[d] EXCEPT !.pruned = TRUE] ELSE cs[d]]

RecvStaleSyncer_noRetry(c, peer) ==
    /\ loopPc = "select"
    /\ ~quit
    /\ Offers(c, "prune", peer)
    /\ LET gone == gossipSyncer(Reg, peer)
       IN \E reg \in removeGossipSyncer(Reg, peer) :
          /\ calls' = CloseDone(Handoff(MarkPruned(calls, peer), c), c)
          /\ activeSyncers' = reg.active
          /\ inactiveSyncers' = reg.inactive
          /\ IF \/ initialHistoricalSyncer = Nil
                \/ peer # syncers[initialHistoricalSyncer].peerPub
             THEN /\ syncers' = reg.syncers
                  /\ asked' = reg.asked
                  /\ initialSyncsInFlight' = initialSyncsInFlight \ {gone}
                  /\ UNCHANGED bootstrapVars
             ELSE \E r \in forceHistoricalSync(reg) :
                  /\ syncers' = r[2].syncers
                  /\ asked' = r[2].asked
                  /\ IF r[1] = Nil
                     THEN /\ initialSyncsInFlight' = initialSyncsInFlight \ {gone}
                          /\ UNCHANGED <<attemptInitialHistoricalSync,
                                         initialHistoricalSyncer,
                                         initialHistoricalSyncSignal>>
                     ELSE /\ initialHistoricalSyncer' = r[1]
                          /\ initialHistoricalSyncSignal' = ResetSyncedSignal(r[2].syncers, r[1])
                          /\ initialSyncsInFlight' =
                                 (initialSyncsInFlight \ {gone}) \cup {r[1]}
                          /\ UNCHANGED attemptInitialHistoricalSync
                  /\ UNCHANGED initialHistoricalSyncCompleted
    /\ event' = "staleSyncer"
    /\ UNCHANGED lockVars
    /\ UNCHANGED <<NumActiveSyncers, loopPc, cur, lifecycleVars, firstRequestOk>>

\* Lines 311-337 of the stale-peer case: the deregistered peer held the
\* initial historical role (by the peerPub the pointer names), so a replacement
\* is looked for; reg is the registry removeGossipSyncer left, gone the syncer
\* it removed.
ReplaceHolder(peer, gone, reg) ==
    IF \/ initialHistoricalSyncer = Nil
       \/ peer # syncers[initialHistoricalSyncer].peerPub
    THEN /\ syncers' = reg.syncers
         /\ asked' = reg.asked
         /\ initialSyncsInFlight' = initialSyncsInFlight \ {gone}
         /\ UNCHANGED bootstrapVars
    ELSE \E r \in forceHistoricalSync(reg) :
         /\ syncers' = r[2].syncers
         /\ asked' = r[2].asked
         /\ IF r[1] = Nil
            THEN /\ attemptInitialHistoricalSync' = TRUE
                 /\ initialSyncsInFlight' = initialSyncsInFlight \ {gone}
                 /\ UNCHANGED <<initialHistoricalSyncer,
                                initialHistoricalSyncSignal>>
            ELSE /\ initialHistoricalSyncer' = r[1]
                 /\ initialHistoricalSyncSignal' = ResetSyncedSignal(r[2].syncers, r[1])
                 /\ initialSyncsInFlight' =
                        (initialSyncsInFlight \ {gone}) \cup {r[1]}
                 /\ UNCHANGED attemptInitialHistoricalSync
         /\ UNCHANGED initialHistoricalSyncCompleted

\* case staleSyncer := <-m.staleSyncers, the whole case.
RecvStaleSyncer(c, peer) ==
    /\ loopPc = "select"
    /\ ~quit
    /\ Offers(c, "prune", peer)
    /\ LET gone == gossipSyncer(Reg, peer)
       IN \E reg \in removeGossipSyncer(Reg, peer) :
          /\ calls' = CloseDone(Handoff(MarkPruned(calls, peer), c), c)
          /\ activeSyncers' = reg.active
          /\ inactiveSyncers' = reg.inactive
          /\ ReplaceHolder(peer, gone, reg)
    /\ event' = "staleSyncer"
    /\ UNCHANGED lockVars
    /\ UNCHANGED <<NumActiveSyncers, loopPc, cur, lifecycleVars, firstRequestOk>>

\* ------------------------------------- syncerHandler: signal, tickers, quit
\* case <-initialHistoricalSyncSignal.
InitialHistoricalSyncDone ==
    /\ loopPc = "select"
    /\ initialHistoricalSyncSignal = "closed"
    /\ initialHistoricalSyncer' = Nil
    /\ initialHistoricalSyncSignal' = "nil"
    /\ initialHistoricalSyncCompleted' = TRUE
    /\ LET numActiveLeft == NumActiveSyncers - Cardinality(DOMAIN activeSyncers)
       IN \E reg \in PromoteLoop(numActiveLeft, Reg) : SetReg(reg)
    /\ event' = "initialHistoricalSyncSignal"
    /\ UNCHANGED lockVars
    /\ UNCHANGED <<NumActiveSyncers, attemptInitialHistoricalSync, loopPc, cur,
                   lifecycleVars, calls, historyVars>>

rotateActiveSyncerCandidate_anyState(reg) ==
    UNION { UNION { IF activeSyncer = Nil \/ candidate = Nil
                    THEN {reg}
                    ELSE { Refused(reg, {activeSyncer}, "PassiveSync"),
                           Refused(transitionActiveSyncer(reg, activeSyncer),
                                   {candidate}, "ActiveSync"),
                           transitionPassiveSyncer(
                               transitionActiveSyncer(reg, activeSyncer), candidate) } :
                    candidate \in IF reg.inactive = EmptyMap THEN {Nil}
                                  ELSE Values(reg.inactive) } :
            activeSyncer \in chooseRandomSyncer(reg.syncers, Values(reg.active), {}) }

rotateActiveSyncerCandidate_candidateFirst(reg) ==
    UNION { UNION { IF activeSyncer = Nil \/ candidate = Nil
                    THEN {reg}
                    ELSE { Refused(reg, {candidate}, "ActiveSync"),
                           Refused(transitionPassiveSyncer(reg, candidate),
                                   {activeSyncer}, "PassiveSync"),
                           transitionActiveSyncer(
                               transitionPassiveSyncer(reg, candidate), activeSyncer) } :
                    candidate \in chooseRandomSyncer(reg.syncers, Values(reg.inactive), {}) } :
            activeSyncer \in chooseRandomSyncer(reg.syncers, Values(reg.active), {}) }

\* rotateActiveSyncerCandidate: the registries it can leave.
rotateActiveSyncerCandidate(reg) ==
    UNION { UNION { IF activeSyncer = Nil \/ candidate = Nil
                    THEN {reg}
                    ELSE { \* transitionActiveSyncer returns an error
                           Refused(reg, {activeSyncer}, "PassiveSync"),
                           \* transitionPassiveSyncer returns an error
                           Refused(transitionActiveSyncer(reg, activeSyncer),
                                   {candidate}, "ActiveSync"),
                           transitionPassiveSyncer(
                               transitionActiveSyncer(reg, activeSyncer), candidate) } :
                    candidate \in chooseRandomSyncer(reg.syncers, Values(reg.inactive), {}) } :
            activeSyncer \in chooseRandomSyncer(reg.syncers, Values(reg.active), {}) }

\* case <-m.cfg.RotateTicker.Ticks().
RotateTick ==
    /\ loopPc = "select"
    /\ \E reg \in rotateActiveSyncerCandidate(Reg) : SetReg(reg)
    /\ event' = "RotateTicker"
    /\ UNCHANGED lockVars
    /\ UNCHANGED <<NumActiveSyncers, bootstrapVars, loopPc, cur, lifecycleVars, calls,
                   historyVars>>

\* case <-m.cfg.HistoricalSyncTicker.Ticks().
HistoricalSyncTick ==
    /\ loopPc = "select"
    /\ \E r \in forceHistoricalSync(Reg) : syncers' = r[2].syncers /\ asked' = r[2].asked
    /\ event' = "HistoricalSyncTicker"
    /\ UNCHANGED lockVars
    /\ UNCHANGED <<NumActiveSyncers, activeSyncers, inactiveSyncers, bootstrapVars,
                   loopPc, cur, lifecycleVars, calls, historyVars>>

\* case <-m.quit: the handler returns (wg.Done).
QuitLoop ==
    /\ loopPc = "select"
    /\ quit
    /\ loopPc' = "exited"
    /\ ClearLog
    /\ UNCHANGED lockVars
    /\ UNCHANGED <<NumActiveSyncers, registryVars, bootstrapVars, cur, lifecycleVars,
                   calls, historyVars>>

\* ------------------------------------------------------- the syncers' side
\* A syncer finishes its outstanding queries: chansSynced, synced signal closed.
SyncerSynced(s) ==
    /\ syncers[s].state = "syncingChans"
    /\ syncers[s].stopped = 0
    /\ syncers' = [syncers EXCEPT ![s].state = "chansSynced"]
    /\ initialHistoricalSyncSignal' =
           IF initialHistoricalSyncer = s /\ initialHistoricalSyncSignal = "open"
           THEN "closed" ELSE initialHistoricalSyncSignal
    /\ initialSyncsInFlight' = initialSyncsInFlight \ {s}
    /\ ClearLog
    /\ UNCHANGED lockVars
    /\ UNCHANGED <<NumActiveSyncers, activeSyncers, inactiveSyncers,
                   attemptInitialHistoricalSync, initialHistoricalSyncCompleted,
                   initialHistoricalSyncer, loopPc, cur, lifecycleVars, calls,
                   firstRequestOk>>

\* The goroutine of `go s.Stop()` runs.
DetachedStop(s) ==
    /\ syncers[s].stopTasks > 0
    /\ syncers' = [SyncerStop(syncers, s) EXCEPT ![s].stopTasks = @ - 1]
    /\ ClearLog
    /\ UNCHANGED lockVars
    /\ UNCHANGED <<NumActiveSyncers, activeSyncers, inactiveSyncers, bootstrapVars,
                   loopPc, cur, lifecycleVars, calls, historyVars>>

\* ------------------------------------------------------------------- Next
\* The manager, its syncers and its lifecycle calls.
ManagerStep ==
    \/ Start
    \/ StopCloseQuit
    \/ StopSyncers
    \/ StartSyncer
    \/ InitialHistoricalSync
    \/ InitialHistoricalSyncDone
    \/ RotateTick
    \/ HistoricalSyncTick
    \/ QuitLoop
    \/ \E s \in Ids : SyncerSynced(s)
    \/ \E s \in Ids : DetachedStop(s)

\* Every InitSyncState / PruneSyncState caller is untracked.
Next ==
    \/ \E p \in Peers : RecvNewSyncer(Other, p, MaxSyncers)
    \/ \E p \in Peers : RecvStaleSyncer(Other, p)
    \/ ManagerStep

Spec == Init /\ [][Next]_vars

\* The same manager with the callers of Callers followed through their calls.
ApiNext ==
    \/ \E c \in Callers, p \in Peers : InitSyncState(c, p)
    \/ \E c \in Callers, p \in Peers : PruneSyncState(c, p)
    \/ \E c \in Callers : ReturnOnQuit(c)
    \/ \E c \in Callers : ReturnOnDone(c)
    \/ \E c \in Requesters, p \in Peers : RecvNewSyncer(c, p, MaxApiSyncers)
    \/ \E c \in Requesters, p \in Peers : RecvStaleSyncer(c, p)
    \/ ManagerStep

ApiSpec == Init /\ [][ApiNext]_vars

\* The done event when no syncer refuses its transition: promotions go on
\* until the active set is full or no inactive syncer is in chansSynced.
AcceptedSyncDone ==
    /\ InitialHistoricalSyncDone
    /\ \/ Cardinality(DOMAIN activeSyncers') = NumActiveSyncers
       \/ \A s \in Values(inactiveSyncers') : syncers'[s].state # "chansSynced"

\* The promotion scenario: registrations only, no ticks, no deregistration,
\* no Stop, NumActiveSyncers = ScenarioActive.
PromoteInit ==
    /\ NumActiveSyncers = ScenarioActive
    /\ FreshManager

PromoteNext ==
    \/ Start
    \/ \E p \in 1..ScenarioPeers : RecvNewSyncer(Other, p, ScenarioPeers)
    \/ StartSyncer
    \/ InitialHistoricalSync
    \/ AcceptedSyncDone
    \/ \E s \in Ids : SyncerSynced(s)

PromoteSpec == PromoteInit /\ [][PromoteNext]_vars

\* The manager of Spec with Start and Stop called repeatedly.
LifecycleNext ==
    \/ Next
    \/ StartAgain
    \/ StopAgain

LifecycleSpec == Init /\ [][LifecycleNext]_vars

\* The scheduling the runtime provides: the handler finishes the case it is in
\* (s.Start and s.historicalSync return), its select takes every case that
\* stays or keeps becoming ready, a caller whose select has a ready case
\* returns, and Stop proceeds once wg.Wait can return.
Fairness ==
    /\ WF_vars(StartSyncer)
    /\ WF_vars(InitialHistoricalSync)
    /\ SF_vars(QuitLoop)
    /\ WF_vars(StopSyncers)
    /\ \A c \in Callers :
          /\ WF_vars(ReturnOnQuit(c))
          /\ WF_vars(ReturnOnDone(c))
          /\ \A p \in Peers :
                /\ SF_vars(RecvNewSyncer(c, p, MaxLiveSyncers))
                /\ SF_vars(RecvStaleSyncer(c, p))

\* The manager with tracked and untracked callers, as in ApiNext.
LiveNext ==
    \/ \E c \in Callers, p \in Peers : EnterInitSyncState(c, p, MaxLiveSyncers)
    \/ \E c \in Callers, p \in Peers : PruneSyncState(c, p)
    \/ \E c \in Callers : ReturnOnQuit(c)
    \/ \E c \in Callers : ReturnOnDone(c)
    \/ \E c \in Requesters, p \in Peers : RecvNewSyncer(c, p, MaxLiveSyncers)
    \/ \E c \in Requesters, p \in Peers : RecvStaleSyncer(c, p)
    \/ ManagerStep

LiveSpec == Init /\ [][LiveNext]_vars /\ Fairness

\* The registry at work: registrations and deregistrations of RegistryPeers
\* peers (RegistryPeers syncers created at most), both
\* tickers and the syncers' progress; Stop is never called.
RegistryInit ==
    /\ NumActiveSyncers \in 0..RegistryActive
    /\ FreshManager

RegistryNext ==
    \/ Start
    \/ \E p \in 1..RegistryPeers : RecvNewSyncer(Other, p, RegistryPeers)
    \/ \E p \in 1..RegistryPeers : RecvStaleSyncer(Other, p)
    \/ StartSyncer
    \/ InitialHistoricalSync
    \/ InitialHistoricalSyncDone
    \/ RotateTick
    \/ HistoricalSyncTick
    \/ \E s \in Ids : SyncerSynced(s)

RegistrySpec == RegistryInit /\ [][RegistryNext]_vars

\* The executions in which no syncer refuses a sync type transition and every
\* registered syncer is in chansSynced whenever a promotion or a rotation
\* selects its candidates.
NoTransitionRefused ==
    \A r \in asked' : r.op \in {"ActiveSync", "PassiveSync"} => r.ok

AllSynced(set) == \A s \in set : syncers[s].state = "chansSynced"

AcceptedRotateTick ==
    /\ AllSynced(Values(gossipSyncersMap(Reg)))
    /\ RotateTick
    /\ NoTransitionRefused

AcceptedStaleSyncer(peer) ==
    /\ AllSynced(Values(gossipSyncersMap(Reg)) \ {gossipSyncer(Reg, peer)})
    /\ RecvStaleSyncer(Other, peer)
    /\ NoTransitionRefused

AcceptedSyncDoneAllSynced ==
    /\ AllSynced(Values(gossipSyncersMap(Reg)))
    /\ InitialHistoricalSyncDone
    /\ NoTransitionRefused

AcceptingNext ==
    \/ Start
    \/ \E p \in 1..RegistryPeers : RecvNewSyncer(Other, p, RegistryPeers)
    \/ \E p \in 1..RegistryPeers : AcceptedStaleSyncer(p)
    \/ StartSyncer
    \/ InitialHistoricalSync
    \/ AcceptedSyncDoneAllSynced
    \/ AcceptedRotateTick
    \/ HistoricalSyncTick
    \/ \E s \in Ids : SyncerSynced(s)

AcceptingSpec == RegistryInit /\ [][AcceptingNext]_vars

\* ------------------------------------------- the handler under syncersMu
\* The cases that move syncers between the maps, one map write at a time, as
\* a thread calling GossipSyncer(peer) can meet them. The handler holds
\* syncersMu from Lock to Unlock (loopPc = "locked").
Unlock ==
    /\ syncersMu' = "free"
    /\ txn' = NoTxn
    /\ loopPc' = "select"

\* A chooseRandomSyncer(inactiveSyncers, transitionPassiveSyncer) call
\* returns: the next call of the loop of lines 363-367, or the deferred Unlock.
\* After removeGossipSyncer the stale-peer case still has lines 306-337 to run.
EndCall ==
    IF txn.left > 1
    THEN /\ txn' = [txn EXCEPT !.pc = "choose", !.todo = <<>>, !.tried = {},
                               !.left = @ - 1]
         /\ UNCHANGED <<syncersMu, loopPc>>
    ELSE IF txn.peer # Nil
         THEN /\ txn' = [txn EXCEPT !.pc = "finish", !.todo = <<>>, !.tried = {},
                                    !.left = 0]
              /\ syncersMu' = "free"
              /\ UNCHANGED loopPc
         ELSE Unlock

\* case <-m.cfg.RotateTicker.Ticks(): rotateActiveSyncerCandidate up to the
\* first transition (Lock, both selections, the early returns).
RotateLock ==
    /\ loopPc = "select"
    /\ syncersMu = "free"
    /\ \E a \in chooseRandomSyncer(syncers, Values(activeSyncers), {}),
          b \in chooseRandomSyncer(syncers, Values(inactiveSyncers), {}) :
          IF a = Nil \/ b = Nil
          THEN UNCHANGED <<syncersMu, txn, loopPc>>
          ELSE /\ syncersMu' = "handler"
               /\ loopPc' = "locked"
               /\ txn' = [NoTxn EXCEPT
                            !.pc = "ask",
                            !.todo = <<[s |-> a, op |-> "PassiveSync"],
                                       [s |-> b, op |-> "ActiveSync"]>>]
    /\ event' = "RotateTicker"
    /\ asked' = {}
    /\ UNCHANGED <<NumActiveSyncers, registryVars, bootstrapVars, cur, lifecycleVars,
                   calls, historyVars, lookup>>

\* case <-initialHistoricalSyncSignal up to the first chooseRandomSyncer call.
SyncDoneLock ==
    /\ loopPc = "select"
    /\ syncersMu = "free"
    /\ initialHistoricalSyncSignal = "closed"
    /\ initialHistoricalSyncer' = Nil
    /\ initialHistoricalSyncSignal' = "nil"
    /\ initialHistoricalSyncCompleted' = TRUE
    /\ LET numActiveLeft == NumActiveSyncers - Cardinality(DOMAIN activeSyncers)
       IN IF numActiveLeft <= 0
          THEN UNCHANGED <<syncersMu, txn, loopPc>>
          ELSE /\ syncersMu' = "handler"
               /\ loopPc' = "locked"
               /\ txn' = [NoTxn EXCEPT !.pc = "choose", !.left = numActiveLeft]
    /\ event' = "initialHistoricalSyncSignal"
    /\ asked' = {}
    /\ UNCHANGED <<NumActiveSyncers, registryVars, attemptInitialHistoricalSync, cur,
                   lifecycleVars, calls, historyVars, lookup>>

\* case staleSyncer := <-m.staleSyncers for an active peer: removeGossipSyncer
\* up to its chooseRandomSyncer call (Lock, go s.Stop(), delete).
StaleLock(peer) ==
    /\ loopPc = "select"
    /\ ~quit
    /\ syncersMu = "free"
    /\ peer \in DOMAIN activeSyncers
    /\ peer \notin DOMAIN inactiveSyncers
    /\ LET s == gossipSyncer(Reg, peer) IN
       /\ syncers' = [syncers EXCEPT ![s].stopTasks = @ + 1]
       /\ activeSyncers' = Del(activeSyncers, peer)
       /\ txn' = [NoTxn EXCEPT !.pc = "choose", !.left = 1, !.peer = peer,
                               !.gone = s]
    /\ syncersMu' = "handler"
    /\ loopPc' = "locked"
    /\ event' = "staleSyncer"
    /\ asked' = {}
    /\ UNCHANGED <<NumActiveSyncers, inactiveSyncers, bootstrapVars, cur, lifecycleVars,
                   calls, historyVars, lookup>>

\* The stale-peer case for a peer that is not active: no promotion is made.
StaleNoPromotion(peer) ==
    /\ peer \notin DOMAIN activeSyncers
    /\ syncersMu = "free"
    /\ RecvStaleSyncer(Other, peer)

\* chooseRandomSyncer's loop reaches a candidate in chansSynced it has not
\* met in this call, or runs out and returns nil.
ChooseCandidate ==
    /\ txn.pc = "choose"
    /\ LET candidates == Eligible(syncers, Values(inactiveSyncers)) \ txn.tried IN
       IF candidates = {}
       THEN EndCall
       ELSE /\ \E s \in candidates :
                  txn' = [txn EXCEPT !.pc = "ask",
                                     !.todo = <<[s |-> s, op |-> "ActiveSync"]>>]
            /\ UNCHANGED <<syncersMu, loopPc>>
    /\ UNCHANGED <<NumActiveSyncers, registryVars, bootstrapVars, cur, lifecycleVars,
                   calls, historyVars, logVars, lookup>>

\* s.ProcessSyncTransition in transitionActiveSyncer / transitionPassiveSyncer:
\* accepted, or refused (the rotation returns, the promotion tries the next
\* candidate).
AskTransition ==
    /\ txn.pc = "ask"
    /\ LET r == Head(txn.todo) IN
       \/ /\ syncers' = ProcessSyncTransition(syncers, r.s, r.op)
          /\ asked' = asked \cup {Request(r.s, r.op, TRUE)}
          /\ txn' = [txn EXCEPT !.pc = "delete"]
          /\ UNCHANGED <<syncersMu, loopPc>>
       \/ /\ asked' = asked \cup {Request(r.s, r.op, FALSE)}
          /\ UNCHANGED syncers
          /\ IF txn.left = 0
             THEN Unlock
             ELSE /\ txn' = [txn EXCEPT !.pc = "choose", !.todo = <<>>,
                                        !.tried = @ \cup {r.s}]
                  /\ UNCHANGED <<syncersMu, loopPc>>
    /\ UNCHANGED <<NumActiveSyncers, activeSyncers, inactiveSyncers, bootstrapVars, cur,
                   lifecycleVars, calls, historyVars, event, lookup>>

\* delete(m.activeSyncers, ...) of line 505, delete(m.inactiveSyncers, ...) of
\* line 522.
DeleteFromMap ==
    /\ txn.pc = "delete"
    /\ LET r == Head(txn.todo)
           peer == syncers[r.s].peerPub
       IN IF r.op = "PassiveSync"
          THEN /\ activeSyncers' = Del(activeSyncers, peer)
               /\ UNCHANGED inactiveSyncers
          ELSE /\ inactiveSyncers' = Del(inactiveSyncers, peer)
               /\ UNCHANGED activeSyncers
    /\ txn' = [txn EXCEPT !.pc = "insert"]
    /\ UNCHANGED <<NumActiveSyncers, syncers, bootstrapVars, loopPc, cur,
                   lifecycleVars, calls, historyVars, logVars, syncersMu, lookup>>

\* The insert of line 506 or 523, and what follows the transition.
InsertIntoMap ==
    /\ txn.pc = "insert"
    /\ LET r == Head(txn.todo)
           peer == syncers[r.s].peerPub
       IN IF r.op = "PassiveSync"
          THEN /\ inactiveSyncers' = Put(inactiveSyncers, peer, r.s)
               /\ UNCHANGED activeSyncers
          ELSE /\ activeSyncers' = Put(activeSyncers, peer, r.s)
               /\ UNCHANGED inactiveSyncers
    /\ IF Len(txn.todo) > 1
       THEN /\ txn' = [txn EXCEPT !.pc = "ask", !.todo = Tail(@)]
            /\ UNCHANGED <<syncersMu, loopPc>>
       ELSE IF txn.left = 0 THEN Unlock ELSE EndCall
    /\ UNCHANGED <<NumActiveSyncers, syncers, bootstrapVars, cur, lifecycleVars,
                   calls, historyVars, logVars, lookup>>

\* Lines 306-337 after removeGossipSyncer returned for an active peer.
StaleFinish ==
    /\ txn.pc = "finish"
    /\ syncersMu = "free"
    /\ calls' = MarkPruned(calls, txn.peer)
    /\ ReplaceHolder(txn.peer, txn.gone, [Reg EXCEPT !.asked = asked])
    /\ txn' = NoTxn
    /\ loopPc' = "select"
    /\ UNCHANGED <<NumActiveSyncers, activeSyncers, inactiveSyncers, cur, lifecycleVars,
                   firstRequestOk, event, syncersMu, lookup>>

GossipSyncer_noLock(peer) ==
    /\ lookup' = [peer |-> peer,
                  found |-> gossipSyncer(Reg, peer) # Nil,
                  both |-> peer \in DOMAIN activeSyncers \cap DOMAIN inactiveSyncers,
                  registered |-> \E s \in Ids : /\ syncers[s].peerPub = peer
                                                /\ syncers[s].stopTasks = 0,
                  moved |-> \E r \in asked : /\ r.ok
                                             /\ r.op \in {"ActiveSync", "PassiveSync"}
                                             /\ syncers[r.s].peerPub = peer]
    /\ UNCHANGED <<NumActiveSyncers, registryVars, bootstrapVars, loopPc, cur,
                   lifecycleVars, calls, historyVars, logVars, syncersMu, txn>>

\* GossipSyncer(peer) called by a thread other than the handler: Lock,
\* gossipSyncer, Unlock. History: whether the peer is registered (a syncer
\* created for it has not been handed to removeGossipSyncer) and whether the
\* handler's current case has moved the peer's syncer.
GossipSyncer(peer) ==
    /\ syncersMu = "free"
    /\ lookup' = [peer |-> peer,
                  found |-> gossipSyncer(Reg, peer) # Nil,
                  both |-> peer \in DOMAIN activeSyncers \cap DOMAIN inactiveSyncers,
                  registered |-> \E s \in Ids : /\ syncers[s].peerPub = peer
                                                /\ syncers[s].stopTasks = 0,
                  moved |-> \E r \in asked : /\ r.ok
                                             /\ r.op \in {"ActiveSync", "PassiveSync"}
                                             /\ syncers[r.s].peerPub = peer]
    /\ UNCHANGED <<NumActiveSyncers, registryVars, bootstrapVars, loopPc, cur,
                   lifecycleVars, calls, historyVars, logVars, syncersMu, txn>>

MutexInit ==
    /\ NumActiveSyncers \in 0..MutexActive
    /\ FreshManager

\* The manager of RegistrySpec with the map-moving cases taken one map write
\* at a time and a thread looking peers up.
MutexNext ==
    \/ Start
    \/ \E p \in 1..MutexPeers : RecvNewSyncer(Other, p, MutexPeers)
    \/ StartSyncer
    \/ InitialHistoricalSync
    \/ \E p \in 1..MutexPeers : StaleNoPromotion(p)
    \/ \E p \in 1..MutexPeers : StaleLock(p)
    \/ StaleFinish
    \/ SyncDoneLock
    \/ RotateLock
    \/ ChooseCandidate
    \/ AskTransition
    \/ DeleteFromMap
    \/ InsertIntoMap
    \/ HistoricalSyncTick
    \/ \E s \in Ids : SyncerSynced(s)
    \/ \E p \in 1..MutexPeers : GossipSyncer(p)

MutexSpec == MutexInit /\ [][MutexNext]_vars

\* ----------------------------------------------------------------- claims
Quiescent == loopPc \in {"notstarted", "select", "exited"}

NumActive == Cardinality(DOMAIN activeSyncers)

Registered == Values(activeSyncers) \cup Values(inactiveSyncers)

\* C1: after any sequence of processed events, with transitions and historical
\* sync requests free to succeed or fail, activeSyncers holds at most
\* NumActiveSyncers syncers.
C1_ActiveWithinLimit == NumActive <= NumActiveSyncers

\* A peer registered after the bootstrap while every active slot was taken.
C1_Witness ==
    /\ loopPc = "start"
    /\ initialHistoricalSyncCompleted
    /\ NumActiveSyncers >= 1
    /\ NumActive = NumActiveSyncers
    /\ cur.s \in Values(inactiveSyncers)

\* C2: no peer is a key of both maps (and no syncer is held by both).
C2_MapsDisjoint ==
    /\ (DOMAIN activeSyncers) \cap (DOMAIN inactiveSyncers) = {}
    /\ Values(activeSyncers) \cap Values(inactiveSyncers) = {}

\* The first syncer, registered passive, has been moved to activeSyncers
\* while another syncer is inactive.
C2_Witness ==
    /\ 1 \in Values(activeSyncers)
    /\ inactiveSyncers # EmptyMap

\* C3: while initialHistoricalSyncCompleted is false, activeSyncers is empty.
C3_NoActiveBeforeBootstrap ==
    ~initialHistoricalSyncCompleted => activeSyncers = EmptyMap

\* Two peers are registered, one holds the initial historical role, active
\* slots exist and the bootstrap has not completed.
C3_Witness ==
    /\ ~initialHistoricalSyncCompleted
    /\ NumActiveSyncers >= 1
    /\ Cardinality(DOMAIN inactiveSyncers) >= 2
    /\ initialHistoricalSyncer \in Values(inactiveSyncers)
    /\ loopPc = "select"

\* C4: right after a register event created syncer cur.s, it is in
\* activeSyncers with type ActiveSync iff the bootstrap has completed and fewer
\* than NumActiveSyncers other syncers are active; otherwise it is in
\* inactiveSyncers with type PassiveSync.
C4_ClassifiedOnRegister ==
    loopPc = "start" =>
        LET peer == syncers[cur.s].peerPub
            othersActive == Cardinality((DOMAIN activeSyncers) \ {peer})
        IN IF initialHistoricalSyncCompleted /\ othersActive < NumActiveSyncers
           THEN /\ peer \in DOMAIN activeSyncers
                /\ activeSyncers[peer] = cur.s
                /\ peer \notin DOMAIN inactiveSyncers
                /\ syncers[cur.s].syncType = "ActiveSync"
           ELSE /\ peer \in DOMAIN inactiveSyncers
                /\ inactiveSyncers[peer] = cur.s
                /\ peer \notin DOMAIN activeSyncers
                /\ syncers[cur.s].syncType = "PassiveSync"

\* A new syncer was classified active.
C4_Witness ==
    /\ loopPc = "start"
    /\ cur.s \in Values(activeSyncers)

\* C5: InitSyncState returns nil only after the acknowledgement, and the
\* acknowledgement comes only once a syncer for the peer is in the registry
\* and started; it stays so unless a deregistration of the peer is processed.
C5_RegisterAckedAfterInsert ==
    \A c \in Callers :
        calls[c].op = "init" =>
            /\ calls[c].pc = "ok" => calls[c].done
            /\ (calls[c].done /\ ~calls[c].pruned) =>
                   /\ gossipSyncer(Reg, calls[c].peer) # Nil
                   /\ syncers[gossipSyncer(Reg, calls[c].peer)].started = 1

\* InitSyncState returned nil for a newly created syncer.
C5_Witness ==
    \E c \in Callers :
        /\ calls[c].op = "init"
        /\ calls[c].pc = "ok"
        /\ ~calls[c].pruned
        /\ Len(syncers) >= 1

\* C6: once Stop has returned and the detached stops have run, every syncer
\* ever inserted has been stopped exactly once; none is inserted afterwards.
C6_StoppedExactlyOnce ==
    (stopPc = "done" /\ \A s \in Ids : syncers[s].stopTasks = 0) =>
        \A s \in Ids : syncers[s].stopped = 1

\* Stop has returned with one syncer removed earlier by a deregistration and
\* another one still in a map.
C6_Witness ==
    /\ stopPc = "done"
    /\ \A s \in Ids : syncers[s].stopTasks = 0
    /\ \E s \in Ids : s \notin Registered
    /\ \E s \in Ids : s \in Registered

\* C7: at every quiescent point, attemptInitialHistoricalSync is true iff
\* initialHistoricalSyncer is unset and the bootstrap has not completed.
C7_AttemptIffNoHolder ==
    Quiescent =>
        (attemptInitialHistoricalSync <=>
            (initialHistoricalSyncer = Nil /\ ~initialHistoricalSyncCompleted))

\* C8: at most one initial historical sync is in flight: never two registered
\* syncers asked by the bootstrap logic whose syncs have not ended.
C8_OneInitialSyncInFlight == Cardinality(initialSyncsInFlight) <= 1

\* C9: once initialHistoricalSyncCompleted is true, no event asks for an
\* initial historical sync or names a new initialHistoricalSyncer, and the
\* done event is not processed again.
C9_InitialSyncOnce ==
    [][initialHistoricalSyncCompleted =>
          /\ initialHistoricalSyncer' \in {initialHistoricalSyncer, Nil}
          /\ initialSyncsInFlight' \subseteq initialSyncsInFlight
          /\ ~(initialHistoricalSyncSignal = "closed" /\ initialHistoricalSyncSignal' = "nil")
      ]_vars

\* C10: initialHistoricalSyncCompleted never goes back from true to false.
C10_CompletedMonotone ==
    [][initialHistoricalSyncCompleted => initialHistoricalSyncCompleted']_vars

\* The bootstrap has completed and a later registration has been handled.
C10_Witness ==
    /\ initialHistoricalSyncCompleted
    /\ loopPc = "hist"

\* C11: the first syncer of a fresh manager is inserted in inactiveSyncers as
\* PassiveSync, is started before the historical sync is requested from it and,
\* when that request succeeds, becomes the initialHistoricalSyncer; while it
\* holds that role every later registration is inserted PassiveSync, is not
\* asked and does not take the role.
C11_FirstPeerTakesRole ==
    [][/\ (loopPc' = "start" /\ cur'.s = 1) =>
              /\ 1 \in Values(inactiveSyncers') /\ 1 \notin Values(activeSyncers')
              /\ syncers'[1].syncType = "PassiveSync"
              /\ syncers'[1].started = 0
              /\ syncers'[1].state = "chansSynced"
              /\ initialHistoricalSyncer' = Nil
       /\ (loopPc' = "hist" /\ cur'.s = 1) =>
              /\ syncers'[1].started = 1
              /\ syncers'[1].state = "chansSynced"
              /\ attemptInitialHistoricalSync'
       /\ (loopPc = "hist" /\ cur.s = 1 /\ syncers'[1].state = "syncingChans") =>
              /\ initialHistoricalSyncer' = 1
              /\ ~attemptInitialHistoricalSync'
              /\ firstRequestOk'
       /\ (/\ firstRequestOk /\ initialHistoricalSyncer = 1 /\ 1 \in Registered
           /\ loopPc \in {"start", "hist"} /\ cur.s > 1) =>
              /\ cur.s \in Values(inactiveSyncers)
              /\ syncers[cur.s].syncType = "PassiveSync"
              /\ syncers'[cur.s].state = "chansSynced"
              /\ initialHistoricalSyncer' = 1
      ]_vars

\* The first syncer holds the role it took at its registration and a second
\* peer's registration has been processed to the end.
C11_Witness ==
    /\ firstRequestOk
    /\ initialHistoricalSyncer = 1
    /\ 1 \in Registered
    /\ loopPc = "select"
    /\ Len(syncers) >= 2
    /\ 2 \in Values(inactiveSyncers)
    /\ syncers[2].started = 1

\* C12: when the handler receives a registration for a peer that already has a
\* syncer, it acknowledges the request and changes nothing else: both maps, every
\* syncer (none created, started or retyped) and the bootstrap state stay as
\* they were, and the handler stays at its select.
C12_DuplicateRegisterIdempotent ==
    [][\A c \in Callers :
          (/\ calls[c].op = "init" /\ calls[c].pc = "send" /\ calls'[c].pc = "wait"
           /\ calls[c].peer \in (DOMAIN activeSyncers) \cup (DOMAIN inactiveSyncers)) =>
              /\ calls'[c].done
              /\ calls'[c].made = Nil
              /\ UNCHANGED <<activeSyncers, inactiveSyncers, syncers,
                             attemptInitialHistoricalSync, initialHistoricalSyncer,
                             initialHistoricalSyncSignal, initialHistoricalSyncCompleted>>
              /\ loopPc' = loopPc
      ]_vars

\* InitSyncState returned nil for a peer whose syncer already existed.
C12_Witness ==
    \E c \in Callers :
        /\ calls[c].op = "init"
        /\ calls[c].dup
        /\ calls[c].pc = "ok"
        /\ gossipSyncer(Reg, calls[c].peer) # Nil

\* C13: a call entered after Stop has returned is never handed to the handler:
\* InitSyncState returns ErrSyncManagerExiting and no syncer is created for it,
\* PruneSyncState returns plainly; and once Stop has returned neither map changes.
C13_CallsAfterStop ==
    /\ [](\A c \in Callers :
             calls[c].afterStop =>
                 /\ calls[c].pc \in {"send", "ok", "exiting"}
                 /\ ~calls[c].done /\ ~calls[c].dup /\ calls[c].made = Nil
                 /\ calls[c].pc = "exiting" => calls[c].op = "init"
                 /\ calls[c].pc = "ok" => calls[c].op = "prune")
    /\ [][stopPc = "done" => UNCHANGED <<activeSyncers, inactiveSyncers>>]_vars

\* InitSyncState, entered after Stop returned with a syncer registered, has
\* returned ErrSyncManagerExiting.
C13_Witness ==
    \E c \in Callers :
        /\ calls[c].afterStop
        /\ calls[c].op = "init"
        /\ calls[c].pc = "exiting"
        /\ Registered # {}
        /\ gossipSyncer(Reg, calls[c].peer) = Nil

\* C14 (as claimed): an InitSyncState call in flight when Stop is invoked
\* returns ErrSyncManagerExiting, and a syncer inserted for it is stopped once
\* Stop has returned.
C14_InFlightGetsExiting ==
    \A c \in Callers :
        (calls[c].op = "init" /\ calls[c].atStop # "no") =>
            /\ calls[c].pc # "ok"
            /\ (/\ stopPc = "done" /\ calls[c].made # Nil
                /\ \A s \in Ids : syncers[s].stopTasks = 0) =>
                   syncers[calls[c].made].stopped = 1

\* C14 (amended): an InitSyncState call in flight when Stop is invoked returns
\* ErrSyncManagerExiting if the handler had not received its request (and then
\* no syncer is created for it); if the handler had received it, the call
\* returns ErrSyncManagerExiting or, only after the acknowledgement, nil. A
\* syncer inserted for it has been stopped exactly once when Stop has returned
\* and the detached stops have run.
C14_InFlightAtStop ==
    \A c \in Callers :
        (calls[c].op = "init" /\ calls[c].atStop # "no") =>
            /\ calls[c].atStop = "send" =>
                   /\ calls[c].pc \in {"send", "exiting"}
                   /\ calls[c].made = Nil /\ ~calls[c].dup /\ ~calls[c].done
            /\ calls[c].atStop = "wait" => calls[c].pc \in {"wait", "ok", "exiting"}
            /\ calls[c].pc = "ok" => calls[c].done
            /\ (/\ stopPc = "done" /\ calls[c].made # Nil
                /\ \A s \in Ids : syncers[s].stopTasks = 0) =>
                   syncers[calls[c].made].stopped = 1

\* A call in flight at Stop returned nil, and the syncer inserted for it was
\* stopped by Stop.
C14_Witness ==
    \E c \in Callers :
        /\ calls[c].op = "init"
        /\ calls[c].atStop = "wait"
        /\ calls[c].pc = "ok"
        /\ calls[c].made \in Registered
        /\ stopPc = "done"
        /\ syncers[calls[c].made].stopped = 1

\* C15: under fair scheduling, once the handler has been started or Stop has
\* been invoked, every InitSyncState / PruneSyncState call returns, whether it
\* waits to hand off its request or waits for the acknowledgement; and Stop,
\* once invoked, returns.
C15_CallsReturn ==
    /\ \A c \in Callers :
          (calls[c].pc \in {"send", "wait"} /\ (startOnce \/ quit)) ~> Returned(c)
    /\ (stopPc = "wait") ~> (stopPc = "done")

\* A caller was released by quit while it waited to hand off its request to a
\* handler that was never started.
C15_Witness ==
    \E c \in Callers :
        /\ calls[c].atStop = "send"
        /\ Returned(c)
        /\ ~startOnce
        /\ stopPc = "done"

\* C16: at the acknowledgement of PruneSyncState(p) the peer p is in neither
\* map and a detached stop has been issued on the syncer that was removed; when
\* p had no syncer the maps are unchanged, nothing is stopped, and the request
\* is acknowledged all the same. A peer enters a map again only through a
\* registration the handler processes.
C16_DeregisterRemovesAndStops ==
    [][/\ \A c \in Callers :
             (calls[c].op = "prune" /\ calls[c].pc = "send" /\ calls'[c].pc = "wait") =>
                 LET p == calls[c].peer
                     gone == IF p \in DOMAIN inactiveSyncers THEN inactiveSyncers[p]
                             ELSE IF p \in DOMAIN activeSyncers THEN activeSyncers[p]
                             ELSE Nil
                 IN /\ calls'[c].done
                    /\ p \notin (DOMAIN activeSyncers') \cup (DOMAIN inactiveSyncers')
                    /\ gone # Nil =>
                           /\ gone \notin Values(activeSyncers') \cup Values(inactiveSyncers')
                           /\ syncers'[gone].stopTasks = syncers[gone].stopTasks + 1
                           /\ \A s \in Ids \ {gone} :
                                  syncers'[s].stopTasks = syncers[s].stopTasks
                    /\ gone = Nil =>
                           /\ UNCHANGED <<activeSyncers, inactiveSyncers>>
                           /\ \A s \in Ids :
                                  /\ syncers'[s].stopTasks = syncers[s].stopTasks
                                  /\ syncers'[s].stopped = syncers[s].stopped
       /\ \A p \in Peers :
             (/\ p \notin (DOMAIN activeSyncers) \cup (DOMAIN inactiveSyncers)
              /\ p \in (DOMAIN activeSyncers') \cup (DOMAIN inactiveSyncers')) =>
                 /\ loopPc = "select" /\ loopPc' = "start"
                 /\ syncers'[cur'.s].peerPub = p
      ]_vars

\* PruneSyncState returned after its acknowledgement; the syncer it removed has
\* been stopped by the detached task and the peer is in neither map.
C16_Witness ==
    \E c \in Callers :
        /\ calls[c].op = "prune"
        /\ calls[c].done
        /\ calls[c].pc = "ok"
        /\ gossipSyncer(Reg, calls[c].peer) = Nil
        /\ \E s \in Ids :
              /\ syncers[s].peerPub = calls[c].peer
              /\ syncers[s].stopped = 1
              /\ syncers[s].stopTasks = 0
        /\ stopPc = "idle"

\* C17: until Stop stops the remaining syncers, no syncer in either map has
\* been stopped or has a stop pending; a syncer removed by a deregistration
\* never enters a map again, so a peer registered again gets a syncer created
\* for that registration, which is started before the handler moves on.
C17_FlappingPeerGetsFreshSyncer ==
    /\ [](stopPc # "done" =>
             \A s \in Registered :
                 syncers[s].stopped = 0 /\ syncers[s].stopTasks = 0)
    /\ [](loopPc = "hist" =>
             /\ cur.s \in Registered
             /\ syncers[cur.s].started = 1
             /\ syncers[cur.s].stopped = 0)
    /\ [][/\ \A s \in Ids : s \notin Registered => s \notin Registered'
          /\ \A s \in Registered' \ Registered :
                s = Len(syncers) + 1 /\ syncers'[s].started = 0
         ]_vars

\* A peer was deregistered and registered again: its first syncer is stopped
\* and out of the maps, its second one is started and registered.
C17_Witness ==
    /\ Len(syncers) >= 2
    /\ syncers[1].peerPub = syncers[2].peerPub
    /\ 1 \notin Registered /\ syncers[1].stopped = 1
    /\ 2 \in Registered /\ syncers[2].started = 1 /\ syncers[2].stopped = 0
    /\ stopPc = "idle"

\* C18: however often Start and Stop are called, one syncerHandler is launched
\* (by the first Start), quit is closed once (by the first Stop), and stop is
\* issued at most once on every syncer.
C18_StartStopIdempotent ==
    /\ loops = (IF startCalls >= 1 THEN 1 ELSE 0)
    /\ quitCloses = (IF stopCalls >= 1 THEN 1 ELSE 0)
    /\ quit <=> stopCalls >= 1
    /\ loopPc = "notstarted" <=> startCalls = 0
    /\ \A s \in Ids : syncers[s].stopped + syncers[s].stopTasks <= 1

\* Start and Stop have both been called again after Stop stopped a syncer.
C18_Witness ==
    /\ startCalls = MaxLifecycleCalls
    /\ stopCalls = MaxLifecycleCalls
    /\ stopPc = "done"
    /\ loopPc = "exited"
    /\ \E s \in Registered : syncers[s].stopped = 1

\* The point of the scenario: the peers are registered in order, all passive,
\* the first one holds the initial historical role and its signal has fired.
PromoteScenario ==
    /\ loopPc = "select"
    /\ Len(syncers) = ScenarioPeers
    /\ \A s \in Ids : syncers[s].peerPub = s /\ s \in Values(inactiveSyncers)
    /\ initialHistoricalSyncer = 1
    /\ initialHistoricalSyncSignal = "closed"
    /\ ~initialHistoricalSyncCompleted

C20_BootstrapRestarts ==
    /\ [][/\ (/\ initialHistoricalSyncer \in Registered
               /\ initialHistoricalSyncer \notin Registered'
               /\ ~initialHistoricalSyncCompleted) =>
                  IF initialHistoricalSyncer' = initialHistoricalSyncer
                  THEN attemptInitialHistoricalSync'
                  ELSE /\ initialHistoricalSyncer' \in Registered'
                       /\ syncers'[initialHistoricalSyncer'].state = "syncingChans"
          /\ (loopPc = "hist" /\ loopPc' = "select" /\ attemptInitialHistoricalSync) =>
                  \/ UNCHANGED <<syncers, attemptInitialHistoricalSync,
                                 initialHistoricalSyncer, initialHistoricalSyncSignal>>
                  \/ /\ syncers'[cur.s].state = "syncingChans"
                     /\ initialHistoricalSyncer' = cur.s
                     /\ initialHistoricalSyncSignal' = "open"
                     /\ ~attemptInitialHistoricalSync'
          /\ (attemptInitialHistoricalSync /\ ~attemptInitialHistoricalSync') =>
                  /\ loopPc = "hist"
                  /\ initialHistoricalSyncer' = cur.s
         ]_vars
    /\ []((/\ Quiescent /\ Len(syncers) = 1 /\ Registered = {}
           /\ ~initialHistoricalSyncCompleted) => attemptInitialHistoricalSync)

\* The first peer held the role and was deregistered before completion; the
\* same peer registered again and its new syncer took the role.
C20_Witness ==
    /\ firstRequestOk
    /\ ~initialHistoricalSyncCompleted
    /\ Len(syncers) >= 2
    /\ syncers[2].peerPub = syncers[1].peerPub
    /\ 1 \notin Registered /\ 2 \in Registered
    /\ initialHistoricalSyncer = 2
    /\ ~attemptInitialHistoricalSync

\* The syncers a step takes out of activeSyncers, and those it puts in.
Demoted == Values(activeSyncers) \ Values(activeSyncers')

Promoted == Values(activeSyncers') \ Values(activeSyncers)

Accepted(op) == {r.s : r \in {q \in asked' : q.op = op /\ q.ok}}

Declined(op) == {r.s : r \in {q \in asked' : q.op = op /\ ~q.ok}}

\* C21: a rotate tick in which an active syncer accepts the transition to
\* PassiveSync and an inactive one accepts the transition to ActiveSync moves
\* exactly that one syncer from activeSyncers to inactiveSyncers and exactly
\* one other syncer from inactiveSyncers to activeSyncers; both were in
\* chansSynced and the number of active syncers is the same after the tick.
C21_RotationSwaps ==
    [][(/\ event' = "RotateTicker"
        /\ Accepted("PassiveSync") # {}
        /\ Accepted("ActiveSync") # {})
       => \E a \in Eligible(syncers, Values(activeSyncers)),
             b \in Eligible(syncers, Values(inactiveSyncers)) :
             /\ a # b
             /\ Demoted = {a}
             /\ Promoted = {b}
             /\ Values(inactiveSyncers') = (Values(inactiveSyncers) \ {b}) \cup {a}
             /\ syncers'[a].syncType = "PassiveSync"
             /\ syncers'[b].syncType = "ActiveSync"
             /\ Cardinality(DOMAIN activeSyncers') = Cardinality(DOMAIN activeSyncers)
      ]_vars

\* A rotation has just swapped two syncers while a third stayed inactive.
C21_Witness ==
    /\ event = "RotateTicker"
    /\ \E a, b \in Ids :
          /\ Request(a, "PassiveSync", TRUE) \in asked
          /\ Request(b, "ActiveSync", TRUE) \in asked
          /\ a \in Values(inactiveSyncers)
          /\ b \in Values(activeSyncers)
    /\ Cardinality(DOMAIN inactiveSyncers) = 2

\* The syncer a deregistration hands to `go s.Stop()`.
Removed == {s \in Ids : syncers'[s].stopTasks = syncers[s].stopTasks + 1}

\* C22: deregistering a peer of activeSyncers removes it and promotes one
\* inactive syncer that is in chansSynced and accepts the transition to
\* ActiveSync, so the number of active syncers is unchanged; when every
\* inactive syncer in chansSynced refuses (or there is none) it decreases by
\* exactly one. Deregistering a peer of inactiveSyncers leaves activeSyncers
\* as it was.
C22_DeregisterActivePromotes ==
    [][event' = "staleSyncer"
       => /\ Cardinality(Removed) <= 1
          /\ Removed = {} => UNCHANGED <<activeSyncers, inactiveSyncers>>
          /\ \A g \in Removed :
                /\ g \in Values(inactiveSyncers) =>
                      /\ activeSyncers' = activeSyncers
                      /\ Values(inactiveSyncers') = Values(inactiveSyncers) \ {g}
                /\ g \in Values(activeSyncers) =>
                      LET eligible == Eligible(syncers, Values(inactiveSyncers))
                          kept == Values(activeSyncers) \ {g}
                      IN IF Accepted("ActiveSync") # {}
                         THEN \E b \in eligible :
                                 /\ Accepted("ActiveSync") = {b}
                                 /\ Values(activeSyncers') = kept \cup {b}
                                 /\ Values(inactiveSyncers') = Values(inactiveSyncers) \ {b}
                                 /\ Cardinality(DOMAIN activeSyncers') =
                                        Cardinality(DOMAIN activeSyncers)
                         ELSE /\ eligible \subseteq Declined("ActiveSync")
                              /\ Values(activeSyncers') = kept
                              /\ inactiveSyncers' = inactiveSyncers
                              /\ Cardinality(DOMAIN activeSyncers') =
                                     Cardinality(DOMAIN activeSyncers) - 1
      ]_vars

\* An active peer was just deregistered and an inactive syncer took its place
\* next to an active syncer that stayed.
C22_Witness ==
    /\ event = "staleSyncer"
    /\ \E g, b \in Ids :
          /\ syncers[g].stopTasks = 1
          /\ syncers[g].syncType = "ActiveSync"
          /\ g \notin Registered
          /\ Request(b, "ActiveSync", TRUE) \in asked
          /\ b \in Values(activeSyncers)
    /\ Cardinality(DOMAIN activeSyncers) = 2

\* C23: processing the initial-historical-sync-done event clears
\* initialHistoricalSyncer and its signal, sets initialHistoricalSyncCompleted
\* and promotes inactive chansSynced syncers that accept the transition: none
\* (and none is asked) when the active set is already full, otherwise as many
\* as the active set lacks, or fewer only when every chansSynced syncer left
\* in inactiveSyncers was asked and refused.
C23_SyncDonePromotes ==
    [][event' = "initialHistoricalSyncSignal"
       => LET numActiveLeft == NumActiveSyncers - Cardinality(DOMAIN activeSyncers)
              promoted == Accepted("ActiveSync")
          IN /\ initialHistoricalSyncer' = Nil
             /\ initialHistoricalSyncSignal' = "nil"
             /\ initialHistoricalSyncCompleted'
             /\ promoted \subseteq Eligible(syncers, Values(inactiveSyncers))
             /\ Values(activeSyncers') = Values(activeSyncers) \cup promoted
             /\ Values(inactiveSyncers') = Values(inactiveSyncers) \ promoted
             /\ \A s \in promoted : syncers'[s].syncType = "ActiveSync"
             /\ IF numActiveLeft <= 0
                THEN /\ promoted = {}
                     /\ asked' = {}
                ELSE \/ Cardinality(promoted) = numActiveLeft
                     \/ /\ Cardinality(promoted) < numActiveLeft
                        /\ Eligible(syncers', Values(inactiveSyncers'))
                               \subseteq Declined("ActiveSync")
      ]_vars

\* The done event has just promoted two of three inactive syncers.
C23_Witness ==
    /\ event = "initialHistoricalSyncSignal"
    /\ initialHistoricalSyncCompleted
    /\ Cardinality({r \in asked : r.ok}) = 2
    /\ Cardinality(DOMAIN activeSyncers) = 2
    /\ inactiveSyncers # EmptyMap

\* C24: when the registered syncer holding the initial-historical role is
\* deregistered and another registered syncer in chansSynced accepts the
\* historical-sync request, that syncer becomes initialHistoricalSyncer with a
\* fresh (open) synced signal and attemptInitialHistoricalSync stays false;
\* the replacement is never the syncer just removed. Deregistering a peer
\* whose syncer does not hold the role leaves initialHistoricalSyncer, its
\* signal and attemptInitialHistoricalSync unchanged.
C24_HolderReplaced ==
    [][event' = "staleSyncer"
       => /\ \A g \in Removed :
                (g = initialHistoricalSyncer /\ Accepted("historicalSync") # {})
                => \E r \in Eligible(syncers, Registered \ {g}) :
                      /\ Accepted("historicalSync") = {r}
                      /\ initialHistoricalSyncer' = r
                      /\ initialHistoricalSyncSignal' = "open"
                      /\ ~attemptInitialHistoricalSync
                      /\ ~attemptInitialHistoricalSync'
          /\ (Removed = {} \/ initialHistoricalSyncer \notin Removed)
             => UNCHANGED <<initialHistoricalSyncer, initialHistoricalSyncSignal,
                            attemptInitialHistoricalSync>>
      ]_vars

\* C25: when the historical-sync request made on a newly registered peer
\* before the initial sync has completed fails, the peer stays registered
\* (in inactiveSyncers, PassiveSync, started, the doneChan of the call that
\* registered it closed),
\* attemptInitialHistoricalSync stays true and the event records no
\* initialHistoricalSyncer; the flag stays true until a registration's own
\* request succeeds, and every registration processed while it is true is asked.
C25_FailedRequestKeepsAttempt ==
    /\ [][(/\ loopPc = "hist"
           /\ event' = "newSyncer"
           /\ ~initialHistoricalSyncCompleted
           /\ Request(cur.s, "historicalSync", FALSE) \in asked')
          => /\ cur.s \in Values(inactiveSyncers')
             /\ syncers'[cur.s].syncType = "PassiveSync"
             /\ syncers'[cur.s].state = "chansSynced"
             /\ syncers'[cur.s].started = 1
             /\ \A c \in Callers :
                   (calls'[c].made = cur.s /\ calls'[c].pc = "wait") => calls'[c].done
             /\ attemptInitialHistoricalSync
             /\ attemptInitialHistoricalSync'
             /\ initialHistoricalSyncer' # cur.s
             /\ UNCHANGED <<initialHistoricalSyncer, initialHistoricalSyncSignal>>
         ]_vars
    /\ [][(attemptInitialHistoricalSync /\ ~attemptInitialHistoricalSync')
          => /\ loopPc = "hist"
             /\ asked' = {Request(cur.s, "historicalSync", TRUE)}
             /\ initialHistoricalSyncer' = cur.s
         ]_vars
    /\ [][(loopPc = "hist" /\ loopPc' = "select" /\ attemptInitialHistoricalSync)
          => \E ok \in BOOLEAN : asked' = {Request(cur.s, "historicalSync", ok)}
         ]_vars

\* The first peer's request failed, the call that registered it has been
\* acknowledged, and the second peer registered was asked and holds the role.
C25_Witness ==
    /\ Len(syncers) = 2
    /\ \A s \in Ids : syncers[s].stopTasks = 0 /\ s \in Values(inactiveSyncers)
    /\ ~firstRequestOk
    /\ syncers[1].started = 1
    /\ syncers[1].state = "chansSynced"
    /\ event = "newSyncer"
    /\ asked = {Request(2, "historicalSync", TRUE)}
    /\ initialHistoricalSyncer = 2
    /\ ~attemptInitialHistoricalSync
    /\ \E c \in Callers : calls[c].made = 1 /\ calls[c].done

\* C26: a rotate tick that finds no active syncer in chansSynced, or no
\* inactive syncer in chansSynced, changes neither map nor any syncer and asks
\* no syncer for a transition.
C26_RotationNoOp ==
    [][(/\ event' = "RotateTicker"
        /\ \/ Eligible(syncers, Values(activeSyncers)) = {}
           \/ Eligible(syncers, Values(inactiveSyncers)) = {})
       => /\ asked' = {}
          /\ UNCHANGED <<activeSyncers, inactiveSyncers, syncers>>
      ]_vars

\* A rotate tick has just found an active syncer in chansSynced and only an
\* inactive syncer with a query outstanding: nothing was asked.
C26_Witness ==
    /\ event = "RotateTicker"
    /\ asked = {}
    /\ Eligible(syncers, Values(activeSyncers)) # {}
    /\ inactiveSyncers # EmptyMap
    /\ Eligible(syncers, Values(inactiveSyncers)) = {}

\* C27: a rotation asks the active syncer A before the candidate B. When A
\* refuses the transition to PassiveSync nothing else is asked and both maps
\* are unchanged; B is asked only after A accepted; when A accepts and B
\* refuses the transition to ActiveSync, A ends in inactiveSyncers, B stays
\* there and activeSyncers has one syncer less than before the tick.
C27_RotationFailures ==
    [][event' = "RotateTicker"
       => /\ Declined("PassiveSync") # {}
             => \E a \in Values(activeSyncers) :
                   /\ asked' = {Request(a, "PassiveSync", FALSE)}
                   /\ UNCHANGED <<activeSyncers, inactiveSyncers, syncers>>
          /\ (Accepted("ActiveSync") \cup Declined("ActiveSync")) # {}
             => Accepted("PassiveSync") # {}
          /\ Declined("ActiveSync") # {}
             => \E a \in Values(activeSyncers), b \in Values(inactiveSyncers) :
                   /\ asked' = {Request(a, "PassiveSync", TRUE),
                                Request(b, "ActiveSync", FALSE)}
                   /\ Values(activeSyncers') = Values(activeSyncers) \ {a}
                   /\ Values(inactiveSyncers') = Values(inactiveSyncers) \cup {a}
                   /\ syncers'[a].syncType = "PassiveSync"
                   /\ syncers'[b] = syncers[b]
                   /\ Cardinality(DOMAIN activeSyncers') =
                          Cardinality(DOMAIN activeSyncers) - 1
      ]_vars

\* A rotation has just demoted the only active syncer while its candidate
\* refused to take over.
C27_Witness ==
    /\ event = "RotateTicker"
    /\ \E a, b \in Values(inactiveSyncers) :
          asked = {Request(a, "PassiveSync", TRUE), Request(b, "ActiveSync", FALSE)}
    /\ activeSyncers = EmptyMap
    /\ NumActiveSyncers >= 1

\* What one promotion (one chooseRandomSyncer(inactiveSyncers,
\* transitionPassiveSyncer) call) that leaves registry o asked, by outcome.
Took(o) == {r.s : r \in {q \in o.asked : q.ok}}

Balked(o) == {r.s : r \in {q \in o.asked : ~q.ok}}

\* C28: in a promotion, a candidate that refuses the transition to ActiveSync
\* stays in inactiveSyncers with its sync type and the other chansSynced
\* candidates are tried: one call moves exactly one syncer, one that accepted,
\* or moves none after every inactive chansSynced syncer has refused. Holds of
\* every promotion call on every registry reached, and of the promotions made
\* by a deregistration and by the initial-historical-sync-done event.
C28_PromotionSkipsRefusals ==
    /\ [](\A o \in PromoteOnce(Reg) :
             LET eligible == Eligible(syncers, Values(inactiveSyncers)) IN
             /\ Took(o) \cup Balked(o) \subseteq eligible
             /\ Took(o) \cap Balked(o) = {}
             /\ Cardinality(Took(o)) <= 1
             /\ Took(o) = {} => Balked(o) = eligible
             /\ Values(o.active) = Values(activeSyncers) \cup Took(o)
             /\ Values(o.inactive) = Values(inactiveSyncers) \ Took(o)
             /\ \A s \in Balked(o) : o.syncers[s] = syncers[s])
    /\ [][event' \in {"staleSyncer", "initialHistoricalSyncSignal"}
          => /\ Promoted = Accepted("ActiveSync")
             /\ Accepted("ActiveSync") \cup Declined("ActiveSync")
                    \subseteq Eligible(syncers, Values(inactiveSyncers))
             /\ \A s \in Declined("ActiveSync") \ Accepted("ActiveSync") :
                   /\ s \in Values(inactiveSyncers')
                   /\ syncers'[s].syncType = syncers[s].syncType
             /\ event' = "staleSyncer"
                => /\ Cardinality(Accepted("ActiveSync")) <= 1
                   /\ Accepted("ActiveSync") \cap Declined("ActiveSync") = {}
                   /\ (Removed \cap Values(activeSyncers) # {}
                       /\ Accepted("ActiveSync") = {})
                      => Eligible(syncers, Values(inactiveSyncers))
                             \subseteq Declined("ActiveSync")
         ]_vars

\* An active peer was just deregistered; one candidate refused to take its
\* place and the next one took it.
C28_Witness ==
    /\ event = "staleSyncer"
    /\ \E b, c \in Ids :
          /\ b # c
          /\ Request(b, "ActiveSync", FALSE) \in asked
          /\ Request(c, "ActiveSync", TRUE) \in asked
          /\ b \in Values(inactiveSyncers)
          /\ syncers[b].syncType = "PassiveSync"
          /\ c \in Values(activeSyncers)

\* The syncers a step moves from one map to the other.
Moved ==
    (Values(activeSyncers) \cap Values(inactiveSyncers'))
        \cup (Values(inactiveSyncers) \cap Values(activeSyncers'))

\* C29: a syncer that is not in chansSynced when a rotation, a promotion or
\* forceHistoricalSync selects is neither moved between the maps nor asked
\* anything. chooseRandomSyncer returns nil exactly when no syncer of the set
\* it is given is in chansSynced with an action that succeeds, otherwise a
\* member of the set that is; one call applies its action successfully to at
\* most one syncer, the one it returns.
C29_OnlyChansSyncedChosen ==
    /\ [](\A set \in {Values(activeSyncers), Values(inactiveSyncers), Registered} :
             \A refuse \in SUBSET set :
                LET chosen == chooseRandomSyncer(syncers, set, refuse)
                    viable == {s \in set : syncers[s].state = "chansSynced"
                                           /\ s \notin refuse}
                IN /\ (chosen = {Nil}) <=> (viable = {})
                   /\ viable # {} => chosen = viable)
    /\ [](/\ \A o \in PromoteOnce(Reg) : Cardinality(Took(o)) <= 1
          /\ \A r \in forceHistoricalSync(Reg) :
                /\ Took(r[2]) = IF r[1] = Nil THEN {} ELSE {r[1]}
                /\ r[1] # Nil => /\ r[1] \in Registered
                                 /\ syncers[r[1]].state = "chansSynced"
                                 /\ r[2].syncers[r[1]].state = "syncingChans")
    /\ [][event' \in {"RotateTicker", "staleSyncer", "initialHistoricalSyncSignal",
                      "HistoricalSyncTicker"}
          => /\ \A s \in Moved : syncers[s].state = "chansSynced"
             /\ \A r \in asked' : /\ r.s \in Registered
                                  /\ syncers[r.s].state = "chansSynced"
             /\ Cardinality(Accepted("historicalSync")) <= 1
             /\ event' # "initialHistoricalSyncSignal"
                => /\ Cardinality(Accepted("ActiveSync")) <= 1
                   /\ Cardinality(Accepted("PassiveSync")) <= 1
         ]_vars

\* A rotation has just swapped two syncers and passed over an inactive syncer
\* that has a query outstanding.
C29_Witness ==
    /\ event = "RotateTicker"
    /\ \E a, b, u \in Values(inactiveSyncers) \cup Values(activeSyncers) :
          /\ Request(a, "PassiveSync", TRUE) \in asked
          /\ Request(b, "ActiveSync", TRUE) \in asked
          /\ u \in Values(inactiveSyncers)
          /\ syncers[u].state = "syncingChans"
          /\ syncers[u].syncType = "PassiveSync"
          /\ \A r \in asked : r.s # u

\* C30: a historical tick asks only registered syncers in chansSynced, of
\* either map, for a historical sync and starts one on at most one of them
\* (on none only when every such syncer refused); it changes no other syncer,
\* neither the membership of activeSyncers or inactiveSyncers nor
\* attemptInitialHistoricalSync, initialHistoricalSyncer, its signal or
\* initialHistoricalSyncCompleted.
C30_HistoricalTickFrame ==
    [][event' = "HistoricalSyncTicker"
       => LET started == Accepted("historicalSync") IN
          /\ \A r \in asked' : r.op = "historicalSync"
          /\ started \cup Declined("historicalSync") \subseteq Eligible(syncers, Registered)
          /\ Cardinality(started) <= 1
          /\ started = {} => Eligible(syncers, Registered) \subseteq Declined("historicalSync")
          /\ \A s \in Ids :
                syncers'[s] = IF s \in started
                              THEN [syncers[s] EXCEPT !.state = "syncingChans"]
                              ELSE syncers[s]
          /\ UNCHANGED <<activeSyncers, inactiveSyncers, attemptInitialHistoricalSync,
                         initialHistoricalSyncer, initialHistoricalSyncSignal,
                         initialHistoricalSyncCompleted>>
      ]_vars

\* A historical tick has just started a historical sync on an active syncer
\* after an inactive one refused.
C30_Witness ==
    /\ event = "HistoricalSyncTicker"
    /\ initialHistoricalSyncCompleted
    /\ \E s \in Values(activeSyncers), u \in Values(inactiveSyncers) :
          /\ asked = {Request(s, "historicalSync", TRUE), Request(u, "historicalSync", FALSE)}
          /\ syncers[s].state = "syncingChans"
          /\ syncers[u].state = "chansSynced"

\* C32: at every quiescent point every syncer held by activeSyncers has sync
\* type ActiveSync and every syncer held by inactiveSyncers has sync type
\* PassiveSync.
C32_TypeAgreesWithMap ==
    Quiescent =>
        /\ \A s \in Values(activeSyncers) : syncers[s].syncType = "ActiveSync"
        /\ \A s \in Values(inactiveSyncers) : syncers[s].syncType = "PassiveSync"

\* Two syncers are active after a rotation demoted one syncer and promoted
\* another.
C32_Witness ==
    /\ Quiescent
    /\ event = "RotateTicker"
    /\ Cardinality(DOMAIN activeSyncers) = 2
    /\ \E a \in Values(inactiveSyncers), b \in Values(activeSyncers) :
          asked = {Request(a, "PassiveSync", TRUE), Request(b, "ActiveSync", TRUE)}

\* The registered peers: the keys of both maps.
RegisteredPeers == (DOMAIN activeSyncers) \cup (DOMAIN inactiveSyncers)

\* C33: the set of registered peers changes only when a registration or a
\* deregistration is processed: a registration of an unknown peer adds exactly
\* that peer, a deregistration removes exactly the peer whose syncer it
\* stops, and rotate ticks, historical ticks, the initial-historical-sync-done
\* event and every other step leave the set as it was.
C33_PeersChangeOnlyOnRegister ==
    [][/\ (loopPc = "select" /\ loopPc' = "start")
          => LET p == syncers'[cur'.s].peerPub IN
             /\ p \notin RegisteredPeers
             /\ RegisteredPeers' = RegisteredPeers \cup {p}
       /\ event' = "staleSyncer"
          => /\ Removed = {} => RegisteredPeers' = RegisteredPeers
             /\ \A g \in Removed :
                   /\ syncers[g].peerPub \in RegisteredPeers
                   /\ RegisteredPeers' = RegisteredPeers \ {syncers[g].peerPub}
       /\ ~(loopPc = "select" /\ loopPc' = "start") /\ event' # "staleSyncer"
          => RegisteredPeers' = RegisteredPeers
      ]_vars

\* Both peers are still registered after a rotation has swapped their syncers
\* and the handler has been told to quit.
C33_Witness ==
    /\ event = "RotateTicker"
    /\ RegisteredPeers = Peers
    /\ quit
    /\ \E a \in Values(inactiveSyncers), b \in Values(activeSyncers) :
          asked = {Request(a, "PassiveSync", TRUE), Request(b, "ActiveSync", TRUE)}

\* C35: whenever initialHistoricalSyncer is non-nil at a quiescent point, the
\* syncer it names is in the registry (in inactiveSyncers while the initial
\* historical sync has not completed) and has not been handed to Stop: the
\* handler never keeps a deregistered syncer as the holder of the role.
C35_HolderIsRegistered ==
    (Quiescent /\ initialHistoricalSyncer # Nil)
    => /\ initialHistoricalSyncer \in Registered
       /\ ~initialHistoricalSyncCompleted
          => initialHistoricalSyncer \in Values(inactiveSyncers)
       /\ syncers[initialHistoricalSyncer].stopTasks = 0
       /\ syncers[initialHistoricalSyncer].stopped = 0

Min(a, b) == IF a <= b THEN a ELSE b

\* C31: when no sync type transition is refused and every registered syncer
\* is in chansSynced whenever a promotion or rotation selects, at every
\* quiescent point after the initial historical sync has completed the number
\* of active syncers is the smaller of NumActiveSyncers and the number of
\* registered peers.
C31_ActiveSetFull ==
    (Quiescent /\ initialHistoricalSyncCompleted)
    => Cardinality(DOMAIN activeSyncers) =
           Min(NumActiveSyncers, Cardinality(RegisteredPeers))

\* NumActiveSyncers = 2: A registered and its initial sync done, then B and C
\* registered: two active syncers, one inactive.
C31_Witness ==
    /\ Quiescent
    /\ initialHistoricalSyncCompleted
    /\ NumActiveSyncers = 2
    /\ Len(syncers) = 3
    /\ \A s \in Ids : syncers[s].peerPub = s /\ syncers[s].stopTasks = 0
    /\ Values(activeSyncers) = {1, 2}
    /\ Values(inactiveSyncers) = {3}

\* C34: a GossipSyncer(peer) call made by another thread while the handler
\* moves syncers between the maps reports every registered peer present, in
\* one map only: the delete from one map and the insert into the other are
\* never seen apart.
C34_LookupFindsRegistered ==
    (lookup.peer # Nil /\ lookup.registered) => (lookup.found /\ ~lookup.both)

\* A lookup of a peer whose syncer the handler's last case moved to the other
\* map has found it.
C34_Witness ==
    /\ lookup.peer # Nil
    /\ lookup.registered
    /\ lookup.moved
    /\ lookup.found
    /\ event = "RotateTicker"

====
